---- MODULE Spec2Model ----
(***************************************************************************)
(* State-machine model of the OCP telemetry decoder of smartmontools:      *)
(*   lib/ocptelemetry.cpp      read_ata_ocp_telemetry_string_state,        *)
(*                             read_ata_ocp_telemetry_statistics           *)
(*   src/ocptelemetryprint.cpp print_ata_ocp_telemetry_log and the walks   *)
(* One step of the machine is one ataReadLogExt call together with the     *)
(* code that runs up to the next call, or one iteration of a descriptor    *)
(* walk.                                                                   *)
(*                                                                         *)
(* size_t values are kept as their signed residue modulo 2^64: a negative  *)
(* integer x stands for the unsigned value 2^64 + x.  Addition and         *)
(* subtraction are then the integer ones, "x != 0" is unchanged and the    *)
(* unsigned order is ULess.  The header fields drawn by the model are far  *)
(* below 2^31 or less than 2^31 below 2^64, so that the residues of their  *)
(* sums are the integer sums.                                              *)
(***************************************************************************)
EXTENDS Integers, Sequences, FiniteSets, TLC

\* ------------------------------------------------------------------------
\* Program constants
\* ------------------------------------------------------------------------
PageDwords == 128
DataHeaderSize == 512
StringsHeaderDwords == 108
StatHeaderDwords == 2
EventHeaderDwords == 1
SnapHeaderBytes == 12
OCP_STAT_TYPE_ARRAY == 1
OCP_STAT_TYPE_CUSTOM == 2
OCP_DATA_TYPE_ASCII == 4
OCP_EVENT_CLASS_STATISTIC_SNAP == 10
LOG_CURRENT == 36
LOG_SAVED == 37
OCP_GUID_LEN == 16
OCP_EVENT_CLASS_BOOT_SEQ == 5
VendorUniqueIdMin == 32768
OCP_STR_BUF_SIZE == 256
StringEntrySize == 16
OCP_EVENT_CLASS_TIMESTAMP == 1
OCP_EVENT_CLASS_MEDIA_WEAR == 9
OCP_EVENT_CLASS_VIRTUAL_FIFO == 11
OCP_EVENT_CLASS_SATA_TRANSPORT == 13
VuClassLimit == 128
OCP_STAT_TYPE_SINGLE == 0
OCP_DATA_TYPE_INT == 1
OCP_DATA_TYPE_UINT == 2
AtaLogStatId == 2
ScsiLogStatId == 3
HddSpinupStatId == 24582
SpinupHistLen == 10

\* ------------------------------------------------------------------------
\* Bounds of the model
\* ------------------------------------------------------------------------
MaxSectors == 7
MaxUBReads == 1
MaxLen == 4
MaxDescs == 3
MaxCatalog == 3
MaxPages == 4

\* ------------------------------------------------------------------------
\* Arithmetic helpers
\* ------------------------------------------------------------------------
\* unsigned "<" on size_t residues
ULess(a, b) == IF (a < 0) = (b < 0) THEN a < b ELSE b < 0

\* MIN(_A, _B) on size_t residues
MIN(a, b) == IF ULess(a, b) THEN a ELSE b

\* mathematical ceiling of a / b, used only in the properties
CeilDiv(a, b) == (a + b - 1) \div b

Max2(a, b) == IF a >= b THEN a ELSE b

\* ------------------------------------------------------------------------
\* Device content (what the page reader returns)
\* ------------------------------------------------------------------------
TableOrder == <<"statistics_id_string", "event_string", "vu_event_string", "ascii">>
RegionOrder == <<"statistic1", "statistic2", "event1_FIFO", "event2_FIFO">>

Tab(s, n) == [start |-> s, size |-> n]

StrHdr(a, b, c, d) ==
  [valid |-> TRUE, statistics_id_string |-> a, event_string |-> b,
   vu_event_string |-> c, ascii |-> d]

NoStringsHeader == [valid |-> FALSE]

\* strings headers a device may return on page 1 of log 0x25: without tables,
\* with tables next to each other, with a first table that starts behind the
\* header, with a gap between tables inside a page and at the end of a page,
\* with a table that does not hold whole entries, and with an event table of
\* 2^64 - 19 dwords from dword 0
StringsHeaders ==
  { StrHdr(Tab(0, 0), Tab(0, 0), Tab(0, 0), Tab(0, 0)),
    StrHdr(Tab(108, 20), Tab(128, 0), Tab(128, 0), Tab(128, 0)),
    StrHdr(Tab(108, 20), Tab(128, 12), Tab(140, 8), Tab(148, 10)),
    StrHdr(Tab(112, 8), Tab(120, 0), Tab(120, 0), Tab(120, 0)),
    StrHdr(Tab(108, 20), Tab(128, 0), Tab(128, 0), Tab(128, 150)),
    StrHdr(Tab(108, 20), Tab(128, 12), Tab(140, 0), Tab(144, 10)),
    StrHdr(Tab(108, 20), Tab(132, 8), Tab(140, 0), Tab(140, 0)),
    StrHdr(Tab(108, 6), Tab(114, 0), Tab(114, 0), Tab(114, 0)),
    StrHdr(Tab(108, 20), Tab(0, 0 - 19), Tab(0, 0), Tab(0, 0)) }

\* the strings headers drawn when the whole of print_ata_ocp_telemetry_log runs
PrintStringsHeaders ==
  { StrHdr(Tab(0, 0), Tab(0, 0), Tab(0, 0), Tab(0, 0)),
    StrHdr(Tab(108, 20), Tab(128, 12), Tab(140, 8), Tab(148, 10)) }

Reg(s, n) == [start_dword |-> s, size_dword |-> n]

DataHdr(a, b, c, d) ==
  [valid |-> TRUE, statistic1 |-> a, statistic2 |-> b,
   event1_FIFO |-> c, event2_FIFO |-> d]

NoDataHeader == [valid |-> FALSE]

StatRegions == { Reg(0, 0), Reg(0, 2), Reg(127, 130), Reg(500, 20) }
EventRegions == { Reg(1000, 0), Reg(0, 2), Reg(610, 39), Reg(520, 2) }

\* telemetry data headers a device may return on page 1 of log 0x24
DataHeaders ==
  { DataHdr(a, b, c, d) : a \in StatRegions, b \in StatRegions,
                          c \in EventRegions, d \in EventRegions }

Area1Values == {0, 3}

\* dword d (counted from byte 0 of page 1) of log 0x24
Img(d) ==
  IF d < 128 THEN d + 1
  ELSE IF d < 512 THEN ((d + 1) % 256) + 65536 * 30
  ELSE ((d + 1) % 256) + 16777216 * 12

\* dword j of page p >= 1 of log 0x24
PageDword(p, j) == Img((p - 1) * PageDwords + j)

\* values a read outside every allocated buffer may produce
GarbageDwords == {0, 65537}

\* region contents drawn for the stand-alone walks
WalkDwords == {0, 1, 65538, 196609, 3145733, 10, 33554433}

\* statistic descriptors a statistics list is made of: a SINGLE of 0 dwords,
\* one of statistic type 3, one of data type 10, a SINGLE of 1 dword, an ARRAY
\* of 2 elements of 4 bytes in 3 dwords, an ARRAY of 1 element of 1 byte in 1
\* dword
DescShapes ==
  { <<1, 1>>,
    <<3145733, 1>>,
    <<65538, 10>>,
    <<1, 65537, 7>>,
    <<1048577, 196609, 65539, 5, 6>>,
    <<1048577, 65537, 0>> }

RECURSIVE Flatten(_)
Flatten(ds) == IF ds = << >> THEN << >> ELSE Head(ds) \o Flatten(Tail(ds))

\* ------------------------------------------------------------------------
\* Field extraction from dwords (packed little-endian structs)
\* ------------------------------------------------------------------------
\* ocp_statistic_header, first dword: statistics_id, statistics_info[0..1]
StatId(v0) == v0 % 65536
StatInfo0(v0) == (v0 \div 65536) % 256
\* ocp_statistic_header, second dword: statistics_info[2], byte5, statistic_data_size
StatInfo2(v1) == v1 % 256
StatDataSize(v1) == v1 \div 65536
\* ocp_statistic_descriptor.array, first dword of the body: element_size,
\* byte010, number_of_elements
ArrayElementSize(v2) == v2 % 256
ArrayNumberOfElements(v2) == v2 \div 65536
\* ocp_event_descriptor: debug_event_class_type, event_id[2], data_size
EventClass(v) == v % 256
EventDataSize(v) == v \div 16777216


\* ------------------------------------------------------------------------
\* State
\* ------------------------------------------------------------------------
VARIABLES
  caller,              \* entry point the run started in
  nsectors_0x24,       \* sector budget for log 0x24
  nsectors_0x25,       \* sector budget for log 0x25
  pc,                  \* position of the decode
  reads,               \* every ataReadLogExt call so far: [log, page, ok] and, for
                       \* page 0, the area1_last_log_page it returned
  internal_status,     \* area1_last_log_page of the page 0 read last, -1 before
  ocp_strings_header,  \* strings header copied from page 1 of log 0x25
  ocp_strings,         \* ocp_string_def: chunks handed to the table processors,
                       \* bytes copied into the ASCII blob
  sw,                  \* locals of the string table walk
  ocp_data_header,     \* telemetry data header read from page 1 of log 0x24
  max_dword,           \* max_dword computed by the header validation, -1 before
  logs,                \* the combined region buffer, one entry per dword
  rf,                  \* locals of the region fetch
  pw,                  \* locals of the print walk
  out,                 \* what was emitted to the reporter, in order
  heap,                \* state of the two heap buffers
  ret,                 \* return value of each function, "none" while running
  fn                   \* the helper called on its own: its name, arguments, result

vars == <<caller, nsectors_0x24, nsectors_0x25, pc, reads, internal_status,
          ocp_strings_header, ocp_strings, sw, ocp_data_header, max_dword,
          logs, rf, pw, out, heap, ret, fn>>

Uninit == 0 - 1

NoWalk == [dwords_to_read |-> 0, dword_pos |-> 0, dwords_in_page |-> 0,
           log_page_idx |-> 0, ascii_offset |-> 0]
NoFetch == [region |-> 0, page_idx |-> 0, page_offset |-> 0,
            dwords_to_read |-> 0, dest |-> 0, bytes_read |-> 0]
NoPrint == [region |-> 0, bytes_printed |-> 0, dwords |-> 0, cursor |-> 0,
            idx |-> 0, read_end |-> 0, ub |-> 0]

NoCall == [op |-> "none"]

InitCommon ==
  /\ fn = NoCall
  /\ reads = <<>>
  /\ internal_status = Uninit
  /\ ocp_strings_header = NoStringsHeader
  /\ ocp_strings = [chunks |-> <<>>, ascii_bytes |-> 0]
  /\ sw = NoWalk
  /\ ocp_data_header = NoDataHeader
  /\ max_dword = Uninit
  /\ logs = <<>>
  /\ rf = NoFetch
  /\ pw = NoPrint
  /\ out = <<>>
  /\ heap = [logs |-> "none", ascii |-> "none"]
  /\ ret = [strings |-> "none", stats |-> "none", print |-> "none"]

\* print_ata_ocp_telemetry_log(device, nsectors_0x24, nsectors_0x25) is entered
Init ==
  /\ caller = "print"
  /\ nsectors_0x24 \in 0..MaxSectors
  /\ nsectors_0x25 \in 0..MaxSectors
  /\ pc = "strings_page0"
  /\ InitCommon

\* read_ata_ocp_telemetry_string_state(device, nsectors, ...) is entered
InitStrings ==
  /\ caller = "strings"
  /\ nsectors_0x24 = 0
  /\ nsectors_0x25 \in 0..MaxSectors
  /\ pc = "strings_page0"
  /\ InitCommon

\* read_ata_ocp_telemetry_statistics(device, nsectors, ...) is entered
InitStats ==
  /\ caller = "stats"
  /\ nsectors_0x24 \in 0..MaxSectors
  /\ nsectors_0x25 = 0
  /\ pc = "stats_page0"
  /\ InitCommon

\* ------------------------------------------------------------------------
\* The page reader
\* ------------------------------------------------------------------------
\* ataReadLogExt(device, log, 0, page, buf, 1) is called and returns ok
Request(log, page, ok, area1) ==
  Append(reads, [log |-> log, page |-> page, ok |-> ok, area1 |-> area1])

Emit(sec, kind, pos, idx) == [sec |-> sec, kind |-> kind, pos |-> pos, idx |-> idx]

\* the elements of an ARRAY statistic handed to the reporter: elems values
\* that take bytes bytes of the descriptor body after the array header
EmitArray(sec, pos, idx, elems, bytes) ==
  [sec |-> sec, kind |-> "array", pos |-> pos, idx |-> idx,
   elems |-> elems, bytes |-> bytes]


\* ------------------------------------------------------------------------
\* Saved Device Internal Status log (log 0x25): the strings catalog
\* ------------------------------------------------------------------------
\* mutant: the area-1 check never fires
Area1AbsentMut(area1_last_log_page) == FALSE

\* area1_last_log_page == 0: the log holds no data
Area1Absent(area1_last_log_page) == area1_last_log_page = 0

\* sum of the four table sizes
StringsDwordsToRead(h) ==
  h.statistics_id_string.size + h.event_string.size +
  h.vu_event_string.size + h.ascii.size

\* the budget check, "ceil" applied to an integer quotient
StringsBudgetOk(h, nsectors) ==
  LET dwords == StringsDwordsToRead(h) + StringsHeaderDwords
  IN IF dwords < 0
     THEN FALSE
     ELSE ~(nsectors < (dwords \div PageDwords) + 1)

\* OCP_DO_STRING_TABLE_PROCESSING(_TABLE_NAME, _POS)
DoStringTableProcessing(h, t, pos) ==
  /\ h[t].size # 0
  /\ ~ULess(pos, h[t].start)
  /\ ULess(pos, h[t].start + h[t].size)

\* OCP_STRING_TABLE_BYTES_IN_PAGE(_TABLE_NAME, _LEN)
StringTableBytesInPage(h, t, dword_pos, len) ==
  IF ULess(dword_pos + len, h[t].start + h[t].size)
  THEN len
  ELSE h[t].start + h[t].size - dword_pos

\* the first table of the if / else-if chain that holds pos, "none" for the else
TableAt(h, pos) ==
  IF DoStringTableProcessing(h, "statistics_id_string", pos) THEN "statistics_id_string"
  ELSE IF DoStringTableProcessing(h, "event_string", pos) THEN "event_string"
  ELSE IF DoStringTableProcessing(h, "vu_event_string", pos) THEN "vu_event_string"
  ELSE IF DoStringTableProcessing(h, "ascii", pos) THEN "ascii"
  ELSE "none"

\* the while loop of ocp_process_stat_id_strings and ocp_process_event_strings
\* on a chunk of data_len bytes: the entries taken from the chunk, and whether
\* data_len -= sizeof *entry steps below 0, after which the loop goes on
\* behind the chunk
ocp_process_strings(data_len) ==
  [entries |-> data_len \div StringEntrySize,
   overrun |-> data_len % StringEntrySize # 0]

\* The while loop of the table walk, run from the state w until it needs the
\* next page ("need_read"), leaves by break ("break"), ends ("done") or a
\* table processor runs behind its chunk ("overrun").
RECURSIVE WalkTables(_, _)
WalkTables(h, w) ==
  IF w.dwords_to_read = 0
  THEN [w EXCEPT !.status = "done"]
  ELSE
    LET t == TableAt(h, w.dword_pos) IN
    IF t = "none"
    THEN [w EXCEPT !.status = "break"]
    ELSE
      LET dwords_consumed ==
            StringTableBytesInPage(h, t, w.dword_pos, w.dwords_in_page)
          w1 == [w EXCEPT
                   !.chunks = Append(@, [table |-> t, dwords |-> dwords_consumed,
                                         page |-> w.log_page_idx]),
                   !.ascii_offset =
                      IF t = "ascii" THEN @ + dwords_consumed * 4 ELSE @,
                   !.dword_pos = @ + dwords_consumed,
                   !.dwords_to_read = @ - dwords_consumed,
                   !.dwords_in_page = @ - dwords_consumed]
      IN IF t # "ascii" /\ ocp_process_strings(dwords_consumed * 4).overrun
         THEN [w EXCEPT !.chunks = w1.chunks, !.status = "overrun"]
         ELSE IF w1.dwords_in_page # 0
         THEN WalkTables(h, w1)
         ELSE IF w1.dwords_to_read # 0
              THEN [w1 EXCEPT !.status = "need_read"]
              ELSE [w1 EXCEPT !.status = "done"]

WalkState(locals, chunks) ==
  [dwords_to_read |-> locals.dwords_to_read, dword_pos |-> locals.dword_pos,
   dwords_in_page |-> locals.dwords_in_page, log_page_idx |-> locals.log_page_idx,
   ascii_offset |-> locals.ascii_offset, chunks |-> chunks, status |-> "loop"]

WalkLocals(w) ==
  [dwords_to_read |-> w.dwords_to_read, dword_pos |-> w.dword_pos,
   dwords_in_page |-> w.dwords_in_page, log_page_idx |-> w.log_page_idx,
   ascii_offset |-> w.ascii_offset]

\* mutant: print_ata_ocp_telemetry_log ignores a failed strings decode
StringsReturnMut(r) ==
  IF caller = "print"
  THEN /\ ret' = [ret EXCEPT !.strings = r]
       /\ out' = out \o << Emit("saved_internal_status", "section", 0, 0),
                           Emit("strings_header", "section", 0, 0) >>
       /\ pc' = "stats_page0"
  ELSE /\ ret' = [ret EXCEPT !.strings = r]
       /\ out' = out
       /\ pc' = "done"

\* read_ata_ocp_telemetry_string_state returns r; in print_ata_ocp_telemetry_log
\* a failure returns false at once and a success prints the two strings sections
StringsReturn(r) ==
  IF caller = "print"
  THEN IF r = "ok"
       THEN /\ ret' = [ret EXCEPT !.strings = r]
            /\ out' = out \o << Emit("saved_internal_status", "section", 0, 0),
                                Emit("strings_header", "section", 0, 0) >>
            /\ pc' = "stats_page0"
       ELSE /\ ret' = [ret EXCEPT !.strings = r, !.print = "false"]
            /\ out' = out
            /\ pc' = "done"
  ELSE /\ ret' = [ret EXCEPT !.strings = r]
       /\ out' = out
       /\ pc' = "done"

\* mutant: leaving the table walk by break fails the decode
StringsAfterWalkMut(w) ==
  /\ sw' = WalkLocals(w)
  /\ ocp_strings' = [chunks |-> w.chunks, ascii_bytes |-> w.ascii_offset]
  /\ IF w.status = "need_read"
     THEN /\ pc' = "strings_table_page"
          /\ UNCHANGED <<ret, out>>
     ELSE IF w.status = "overrun"
          THEN /\ pc' = "crashed"
               /\ UNCHANGED <<ret, out>>
          ELSE IF w.status = "break"
               THEN StringsReturn("read_error")
               ELSE StringsReturn("ok")

\* the state after the table walk ran to w
StringsAfterWalk(w) ==
  /\ sw' = WalkLocals(w)
  /\ ocp_strings' = [chunks |-> w.chunks, ascii_bytes |-> w.ascii_offset]
  /\ IF w.status = "need_read"
     THEN /\ pc' = "strings_table_page"
          /\ UNCHANGED <<ret, out>>
     ELSE IF w.status = "overrun"
          THEN /\ pc' = "crashed"
               /\ UNCHANGED <<ret, out>>
          ELSE StringsReturn("ok")

\* ataReadLogExt(device, 0x25, 0, 0, internal_status, 1) and the area-1 check
StringsReadPage0 ==
  /\ pc = "strings_page0"
  /\ \/ /\ reads' = Request(LOG_SAVED, 0, FALSE, Uninit)
        /\ StringsReturn("read_error")
        /\ UNCHANGED internal_status
     \/ \E area1 \in Area1Values :
          /\ reads' = Request(LOG_SAVED, 0, TRUE, area1)
          /\ internal_status' = area1
          /\ IF Area1Absent(area1)
             THEN StringsReturn("nodata")
             ELSE /\ pc' = "strings_page1"
                  /\ UNCHANGED <<ret, out>>
  /\ UNCHANGED <<caller, nsectors_0x24, nsectors_0x25, ocp_strings_header,
                 ocp_strings, sw, ocp_data_header, max_dword, logs, rf, pw, heap>>
  /\ UNCHANGED fn

\* page 1 of log 0x25: the strings header, the budget check, the allocation of
\* the ASCII blob and the table walk over the rest of page 1
StringsReadPage1 ==
  /\ pc = "strings_page1"
  /\ \/ /\ reads' = Request(LOG_SAVED, 1, FALSE, Uninit)
        /\ StringsReturn("read_error")
        /\ UNCHANGED <<ocp_strings_header, ocp_strings, sw, heap>>
     \/ \E h \in (IF caller = "print" THEN PrintStringsHeaders ELSE StringsHeaders) :
          /\ reads' = Request(LOG_SAVED, 1, TRUE, Uninit)
          /\ ocp_strings_header' = h
          /\ IF ~StringsBudgetOk(h, nsectors_0x25)
             THEN /\ StringsReturn("budget")
                  /\ UNCHANGED <<ocp_strings, sw, heap>>
             ELSE \E alloc_ok \in (IF h.ascii.size # 0 THEN BOOLEAN ELSE {TRUE}) :
                    IF ~alloc_ok
                    THEN /\ StringsReturn("alloc")
                         /\ UNCHANGED <<ocp_strings, sw, heap>>
                    ELSE /\ heap' = [heap EXCEPT
                                       !.ascii = IF h.ascii.size # 0 THEN "live" ELSE @]
                         /\ StringsAfterWalk(WalkTables(h,
                              [dwords_to_read |-> StringsDwordsToRead(h),
                               dword_pos |-> StringsHeaderDwords,
                               dwords_in_page |-> PageDwords - StringsHeaderDwords,
                               log_page_idx |-> 1,
                               ascii_offset |-> 0,
                               chunks |-> <<>>,
                               status |-> "loop"]))
  /\ UNCHANGED <<caller, nsectors_0x24, nsectors_0x25, internal_status,
                 ocp_data_header, max_dword, logs, rf, pw>>
  /\ UNCHANGED fn

\* the next page of the string tables: dwords_in_page = MIN(dwords_to_read, 128),
\* ++log_page_idx, ataReadLogExt, then the walk over that page
StringsReadTablePage ==
  /\ pc = "strings_table_page"
  /\ sw.log_page_idx < MaxPages
  /\ LET idx == sw.log_page_idx + 1
         in_page == MIN(sw.dwords_to_read, PageDwords)
     IN \/ /\ reads' = Request(LOG_SAVED, idx, FALSE, Uninit)
           /\ sw' = [sw EXCEPT !.log_page_idx = idx, !.dwords_in_page = in_page]
           /\ StringsReturn("read_error")
           /\ UNCHANGED ocp_strings
        \/ /\ reads' = Request(LOG_SAVED, idx, TRUE, Uninit)
           /\ StringsAfterWalk(WalkTables(ocp_strings_header,
                WalkState([sw EXCEPT !.log_page_idx = idx, !.dwords_in_page = in_page],
                          ocp_strings.chunks)))
  /\ UNCHANGED <<caller, nsectors_0x24, nsectors_0x25, internal_status,
                 ocp_strings_header, ocp_data_header, max_dword, logs, rf, pw, heap>>
  /\ UNCHANGED fn

NextStrings == StringsReadPage0 \/ StringsReadPage1 \/ StringsReadTablePage

SpecStrings == InitStrings /\ [][NextStrings]_vars


\* ------------------------------------------------------------------------
\* Current Device Internal Status log (log 0x24): header validation
\* ------------------------------------------------------------------------
RegionEnd(r) == r.start_dword + r.size_dword

\* mutant: max_dword starts from 0 instead of sizeof *header
MaxDwordOfNoFloorMut(h) ==
  LET m0 == 0
      m1 == IF h.statistic2.size_dword > 0 /\ RegionEnd(h.statistic2) > m0
            THEN RegionEnd(h.statistic2)
            ELSE IF h.statistic1.size_dword > 0 /\ RegionEnd(h.statistic1) > m0
                 THEN RegionEnd(h.statistic1)
                 ELSE m0
      m2 == IF h.event2_FIFO.size_dword > 0 /\ RegionEnd(h.event2_FIFO) > m1
            THEN RegionEnd(h.event2_FIFO)
            ELSE IF h.event1_FIFO.size_dword > 0 /\ RegionEnd(h.event1_FIFO) > m1
                 THEN RegionEnd(h.event1_FIFO)
                 ELSE m1
  IN m2

\* mutant: max_dword is the plain maximum over the four regions
MaxDwordOfMut(h) ==
  LET e(r) == IF r.size_dword > 0 THEN RegionEnd(r) ELSE 0
  IN Max2(Max2(DataHeaderSize, Max2(e(h.statistic1), e(h.statistic2))),
          Max2(e(h.event1_FIFO), e(h.event2_FIFO)))

\* max_dword of validate_ocp_telemetry_data_header
MaxDwordOf(h) ==
  LET m0 == DataHeaderSize
      m1 == IF h.statistic2.size_dword > 0 /\ RegionEnd(h.statistic2) > m0
            THEN RegionEnd(h.statistic2)
            ELSE IF h.statistic1.size_dword > 0 /\ RegionEnd(h.statistic1) > m0
                 THEN RegionEnd(h.statistic1)
                 ELSE m0
      m2 == IF h.event2_FIFO.size_dword > 0 /\ RegionEnd(h.event2_FIFO) > m1
            THEN RegionEnd(h.event2_FIFO)
            ELSE IF h.event1_FIFO.size_dword > 0 /\ RegionEnd(h.event1_FIFO) > m1
                 THEN RegionEnd(h.event1_FIFO)
                 ELSE m1
  IN m2

\* the return value of validate_ocp_telemetry_data_header, "ceil" applied to an
\* integer quotient
validate_ocp_telemetry_data_header(h, nsectors) ==
  ~(nsectors < (MaxDwordOf(h) \div PageDwords) + 1)

\* log_size >> 2: the dwords of the combined region buffer
LogSizeDwords(h) ==
  h.statistic1.size_dword + h.statistic2.size_dword +
  h.event1_FIFO.size_dword + h.event2_FIFO.size_dword

\* ------------------------------------------------------------------------
\* Region fetch
\* ------------------------------------------------------------------------
\* page_idx of read_ocp_telemetry_data_range_sata, "ceil" of an integer quotient
RangePageIdx(start_dword) == (start_dword \div PageDwords) + 1

\* page_offset of read_ocp_telemetry_data_range_sata
RangePageOffset(start_dword) ==
  start_dword - (RangePageIdx(start_dword) - 1) * PageDwords

\* mutant: page_offset is not reset after the first page
NextPageOffsetMut(page_offset) == page_offset

\* page_offset after a page was copied
NextPageOffset(page_offset) == 0

\* the first region from the k-th on whose size is not 0, 5 when there is none
RECURSIVE NextRegion(_, _)
NextRegion(h, k) ==
  IF k > 4 THEN 5
  ELSE IF h[RegionOrder[k]].size_dword > 0 THEN k
  ELSE NextRegion(h, k + 1)

\* bytes_printed after the k-th region was printed at bytes_printed = bp
BytesPrintedAfter(k, bp, size_dword) ==
  IF k = 1 THEN size_dword * 4 ELSE bp + size_dword * 4

SectionName == <<"statistic_area_1", "statistic_area_2", "event_fifo_1", "event_fifo_2">>

\* mutant: statistic area 2 is printed before statistic area 1
PrintOrderMut == <<2, 1, 3, 4>>

\* the order in which print_ata_ocp_telemetry_log goes through the regions
PrintOrder == <<1, 2, 3, 4>>

\* the first position of PrintOrder from the k-th on whose region is not empty
RECURSIVE NextPrinted(_, _)
NextPrinted(h, k) ==
  IF k > 4 THEN 5
  ELSE IF h[RegionOrder[PrintOrder[k]]].size_dword > 0 THEN k
  ELSE NextPrinted(h, k + 1)

\* print_ata_ocp_telemetry_log goes on with the k-th region: the section of the
\* next region that is not empty is opened, or logs is freed and true returned
PrintEnter(h, k, bytes_printed, o, ub) ==
  LET j == NextPrinted(h, k) IN
  IF j = 5
  THEN /\ out' = o
       /\ pw' = [NoPrint EXCEPT !.region = 5, !.bytes_printed = bytes_printed, !.ub = ub]
       /\ heap' = [heap EXCEPT !.logs = "freed"]
       /\ ret' = [ret EXCEPT !.print = "true", !.stats = "ok"]
       /\ pc' = "done"
  ELSE /\ out' = Append(o, Emit(SectionName[PrintOrder[j]], "section", 0, 0))
       /\ pw' = [region |-> j, bytes_printed |-> bytes_printed,
                 dwords |-> h[RegionOrder[PrintOrder[j]]].size_dword,
                 cursor |-> 0, idx |-> 0, read_end |-> 0, ub |-> ub]
       /\ heap' = [heap EXCEPT !.logs = "live"]
       /\ ret' = [ret EXCEPT !.stats = "ok"]
       /\ pc' = IF PrintOrder[j] <= 2 THEN "print_stats" ELSE "print_events"

\* mutant: a failed page read is tried again
StatsFailMut(r, freed) ==
  IF r = "read_error"
  THEN UNCHANGED <<ret, heap, pc, out, pw>>
  ELSE /\ ret' = IF caller = "print"
                 THEN [ret EXCEPT !.stats = r, !.print = "false"]
                 ELSE [ret EXCEPT !.stats = r]
       /\ heap' = [heap EXCEPT !.logs = IF freed THEN "freed" ELSE @]
       /\ pc' = "done"
       /\ UNCHANGED <<out, pw>>

\* mutant: the current internal status is reported before the failure is
\* returned
StatsFailEmitMut(r, freed) ==
  /\ ret' = IF caller = "print"
            THEN [ret EXCEPT !.stats = r, !.print = "false"]
            ELSE [ret EXCEPT !.stats = r]
  /\ heap' = [heap EXCEPT !.logs = IF freed THEN "freed" ELSE @]
  /\ pc' = "done"
  /\ out' = Append(out, Emit("current_internal_status", "section", 0, 0))
  /\ UNCHANGED pw

\* read_ata_ocp_telemetry_statistics returns false with exit r
StatsFail(r, freed) ==
  /\ ret' = IF caller = "print"
            THEN [ret EXCEPT !.stats = r, !.print = "false"]
            ELSE [ret EXCEPT !.stats = r]
  /\ heap' = [heap EXCEPT !.logs = IF freed THEN "freed" ELSE @]
  /\ pc' = "done"
  /\ UNCHANGED <<out, pw>>

\* read_ata_ocp_telemetry_statistics returns true; print_ata_ocp_telemetry_log
\* then prints the internal status, the data header and the regions
StatsOk(h) ==
  IF caller = "print"
  THEN PrintEnter(h, 1, 0,
                  out \o << Emit("current_internal_status", "section", 0, 0),
                            Emit("data_header", "section", 0, 0) >>, 0)
  ELSE /\ ret' = [ret EXCEPT !.stats = "ok"]
       /\ heap' = [heap EXCEPT !.logs = "live"]
       /\ pc' = "done"
       /\ UNCHANGED <<out, pw>>

\* the fetch goes on with the k-th region, the buffer being lg
FetchEnter(h, k, bytes_read, lg) ==
  LET j == NextRegion(h, k) IN
  /\ logs' = lg
  /\ IF j = 5
     THEN /\ rf' = [NoFetch EXCEPT !.region = 5, !.bytes_read = bytes_read]
          /\ StatsOk(h)
     ELSE /\ rf' = [region |-> j,
                    page_idx |-> RangePageIdx(h[RegionOrder[j]].start_dword),
                    page_offset |-> RangePageOffset(h[RegionOrder[j]].start_dword),
                    dwords_to_read |-> h[RegionOrder[j]].size_dword,
                    dest |-> bytes_read,
                    bytes_read |-> bytes_read]
          /\ heap' = [heap EXCEPT !.logs = "live"]
          /\ pc' = "stats_region"
          /\ UNCHANGED <<ret, out, pw>>

\* ataReadLogExt(device, 0x24, 0, 0, internal_status, 1) and the area-1 check
StatsReadPage0 ==
  /\ pc = "stats_page0"
  /\ \/ /\ reads' = Request(LOG_CURRENT, 0, FALSE, Uninit)
        /\ StatsFail("read_error", FALSE)
        /\ UNCHANGED internal_status
     \/ \E area1 \in Area1Values :
          /\ reads' = Request(LOG_CURRENT, 0, TRUE, area1)
          /\ internal_status' = area1
          /\ IF Area1Absent(area1)
             THEN StatsFail("nodata", FALSE)
             ELSE /\ pc' = "stats_page1"
                  /\ UNCHANGED <<ret, out, pw, heap>>
  /\ UNCHANGED <<caller, nsectors_0x24, nsectors_0x25, ocp_strings_header,
                 ocp_strings, sw, ocp_data_header, max_dword, logs, rf>>
  /\ UNCHANGED fn

\* page 1 of log 0x24: the data header, its validation, malloc(log_size) and
\* the start of the first region fetch
StatsReadPage1 ==
  /\ pc = "stats_page1"
  /\ \/ /\ reads' = Request(LOG_CURRENT, 1, FALSE, Uninit)
        /\ StatsFail("read_error", FALSE)
        /\ UNCHANGED <<ocp_data_header, max_dword, logs, rf>>
     \/ \E h \in DataHeaders :
          /\ reads' = Request(LOG_CURRENT, 1, TRUE, Uninit)
          /\ ocp_data_header' = h
          /\ max_dword' = MaxDwordOf(h)
          /\ IF ~validate_ocp_telemetry_data_header(h, nsectors_0x24)
             THEN /\ StatsFail("budget", FALSE)
                  /\ UNCHANGED <<logs, rf>>
             ELSE \E alloc_ok \in BOOLEAN :
                    IF ~alloc_ok
                    THEN /\ StatsFail("alloc", FALSE)
                         /\ UNCHANGED <<logs, rf>>
                    ELSE FetchEnter(h, 1, 0, [i \in 1..LogSizeDwords(h) |-> Uninit])
  /\ UNCHANGED <<caller, nsectors_0x24, nsectors_0x25, internal_status,
                 ocp_strings_header, ocp_strings, sw>>
  /\ UNCHANGED fn

\* one iteration of the loop of read_ocp_telemetry_data_range_sata and, when
\* the range is complete, the code up to the next page read
StatsReadRegionPage ==
  /\ pc = "stats_region"
  /\ \/ /\ reads' = Request(LOG_CURRENT, rf.page_idx, FALSE, Uninit)
        /\ StatsFail("read_error", TRUE)
        /\ UNCHANGED <<logs, rf>>
     \/ LET dwords_in_page ==
              IF rf.dwords_to_read < PageDwords - rf.page_offset
              THEN rf.dwords_to_read
              ELSE PageDwords - rf.page_offset
            base == rf.dest \div 4
            lg == [i \in 1..Len(logs) |->
                     IF i > base /\ i <= base + dwords_in_page
                     THEN PageDword(rf.page_idx, rf.page_offset + (i - base - 1))
                     ELSE logs[i]]
            left == rf.dwords_to_read - dwords_in_page
            size == ocp_data_header[RegionOrder[rf.region]].size_dword
        IN /\ reads' = Request(LOG_CURRENT, rf.page_idx, TRUE, Uninit)
           /\ IF left > 0
              THEN /\ logs' = lg
                   /\ rf' = [rf EXCEPT !.dwords_to_read = left,
                                       !.dest = @ + dwords_in_page * 4,
                                       !.page_idx = @ + 1,
                                       !.page_offset = NextPageOffset(@)]
                   /\ UNCHANGED <<pc, ret, out, pw, heap>>
              ELSE FetchEnter(ocp_data_header, rf.region + 1,
                              IF rf.region < 4 THEN rf.bytes_read + size * 4
                                               ELSE rf.bytes_read,
                              lg)
  /\ UNCHANGED <<caller, nsectors_0x24, nsectors_0x25, internal_status,
                 ocp_strings_header, ocp_strings, sw, ocp_data_header, max_dword>>
  /\ UNCHANGED fn

NextStats == StatsReadPage0 \/ StatsReadPage1 \/ StatsReadRegionPage

SpecStats == InitStats /\ [][NextStats]_vars


\* ------------------------------------------------------------------------
\* The descriptor walks of print_ata_ocp_telemetry_log
\* ------------------------------------------------------------------------
\* ocp_get_stat_type(info_0, &type) == 0
ocp_get_stat_type(info_0) == ~((info_0 \div 16) % 16 > OCP_STAT_TYPE_CUSTOM)

\* ocp_get_data_type(info_2, &type) == 0
ocp_get_data_type(info_2) == ~(info_2 % 16 > OCP_DATA_TYPE_ASCII)

\* mutant: no descriptor is taken as malformed
ocp_print_stat_descMut(v0, v1) == TRUE

\* the return value of ocp_print_stat_desc: false for a malformed descriptor
ocp_print_stat_desc(v0, v1) ==
  ocp_get_stat_type(StatInfo0(v0)) /\ ocp_get_data_type(StatInfo2(v1))

\* the statistic type of a well-formed descriptor is ARRAY
IsArray(v0) == (StatInfo0(v0) \div 16) % 16 = OCP_STAT_TYPE_ARRAY

\* dwords_consumed of ocp_print_telemetry_statistics
StatDescDwords(v1) == StatHeaderDwords + StatDataSize(v1)

\* ocp_get_event_desc_dwords(e, max_size); v2 is the dword that holds the
\* statistic_data_size of the embedded statistic header
ocp_get_event_desc_dwords(v, v2, max_size) ==
  IF EventClass(v) = OCP_EVENT_CLASS_STATISTIC_SNAP
  THEN IF ULess(max_size, SnapHeaderBytes)
       THEN SnapHeaderBytes
       ELSE EventHeaderDwords + StatHeaderDwords + StatDataSize(v2)
  ELSE EventHeaderDwords + EventDataSize(v)

\* the values a read of dword i (from 0) of the block logs may produce: the
\* dword when it lies in the block, anything when it lies outside
ReadDword(i) == IF i < Len(logs) THEN {logs[i + 1]} ELSE GarbageDwords

OutOfBlock(i) == i >= Len(logs)

\* the walk leaves the region it is in and print_ata_ocp_telemetry_log goes on
LeaveRegion(o, p) ==
  LET k == PrintOrder[pw.region]
      size == ocp_data_header[RegionOrder[k]].size_dword
  IN IF caller = "walk"
     THEN /\ out' = o
          /\ pw' = p
          /\ pc' = "done"
          /\ UNCHANGED <<heap, ret>>
     ELSE PrintEnter(ocp_data_header, pw.region + 1,
                     BytesPrintedAfter(k, pw.bytes_printed, size), o, p.ub)

\* one iteration of the while loop of ocp_print_telemetry_statistics
WalkStatistic ==
  /\ pc = "print_stats"
  /\ LET at == pw.bytes_printed \div 4 + pw.cursor
         sec == SectionName[PrintOrder[pw.region]]
     IN \E v0 \in ReadDword(at) :
          LET oob0 == OutOfBlock(at) IN
          /\ oob0 => pw.ub < MaxUBReads
          /\ IF StatId(v0) = 0
             THEN LeaveRegion(out,
                    [pw EXCEPT !.read_end = Max2(@, pw.cursor + 1),
                               !.ub = IF oob0 THEN @ + 1 ELSE @])
             ELSE \E v1 \in ReadDword(at + 1) :
                  LET printed == ocp_print_stat_desc(v0, v1)
                      array == printed /\ IsArray(v0)
                  IN
                  \E v2 \in (IF array THEN ReadDword(at + 2) ELSE {0}) :
                    LET oob == \/ oob0
                               \/ OutOfBlock(at + 1)
                               \/ array /\ OutOfBlock(at + 2)
                        ub == IF oob THEN pw.ub + 1 ELSE pw.ub
                        dwords_consumed == StatDescDwords(v1)
                        elems == ArrayNumberOfElements(v2) + 1
                        o == out \o << Emit(sec, "descriptor", pw.cursor, pw.idx) >>
                                 \o (IF printed
                                     THEN << Emit(sec, "fields", pw.cursor, pw.idx) >>
                                     ELSE << >>)
                                 \o (IF array
                                     THEN << EmitArray(sec, pw.cursor, pw.idx, elems,
                                               elems * (ArrayElementSize(v2) + 1)) >>
                                     ELSE << >>)
                        left == pw.dwords - dwords_consumed
                        read_end == Max2(pw.read_end, pw.cursor + StatHeaderDwords)
                        p == [pw EXCEPT
                                !.dwords = left,
                                !.cursor = @ + dwords_consumed,
                                !.idx = IF printed THEN @ + 1 ELSE @,
                                !.read_end = read_end,
                                !.ub = ub]
                    IN /\ oob => pw.ub < MaxUBReads
                       /\ IF left = 0
                          THEN LeaveRegion(o, p)
                          ELSE /\ out' = o
                               /\ pw' = p
                               /\ UNCHANGED <<pc, heap, ret>>
  /\ UNCHANGED <<caller, nsectors_0x24, nsectors_0x25, reads, internal_status,
                 ocp_strings_header, ocp_strings, sw, ocp_data_header, max_dword,
                 logs, rf>>
  /\ UNCHANGED fn

\* one iteration of the while loop of ocp_print_telemetry_events: the length
\* of the record, then print_event_desc, which for a statistic snapshot hands
\* the event body to ocp_print_stat_desc whatever max_size is
WalkEvent ==
  /\ pc = "print_events"
  /\ LET at == pw.bytes_printed \div 4 + pw.cursor
         sec == SectionName[PrintOrder[pw.region]]
         max_size == pw.dwords * 4
     IN \E v \in ReadDword(at) :
          LET oob0 == OutOfBlock(at)
              is_snap == EventClass(v) = OCP_EVENT_CLASS_STATISTIC_SNAP
              snap == is_snap /\ ~ULess(max_size, SnapHeaderBytes)
          IN
          /\ oob0 => pw.ub < MaxUBReads
          /\ IF EventClass(v) = 0
             THEN LeaveRegion(out,
                    [pw EXCEPT !.read_end = Max2(@, pw.cursor + 1),
                               !.ub = IF oob0 THEN @ + 1 ELSE @])
             ELSE \E v1 \in (IF is_snap THEN ReadDword(at + 1) ELSE {0}) :
                  LET read2 == snap \/ (is_snap /\ ocp_get_stat_type(StatInfo0(v1)))
                  IN
                  \E v2 \in (IF read2 THEN ReadDword(at + 2) ELSE {0}) :
                    LET oob == \/ oob0
                               \/ is_snap /\ OutOfBlock(at + 1)
                               \/ read2 /\ OutOfBlock(at + 2)
                        ub == IF oob THEN pw.ub + 1 ELSE pw.ub
                        dwords_consumed == ocp_get_event_desc_dwords(v, v2, max_size)
                        o == out \o << Emit(sec, "descriptor", pw.cursor, pw.idx) >>
                                 \o (IF is_snap /\ ocp_print_stat_desc(v1, v2)
                                     THEN << Emit(sec, "snapshot", pw.cursor, pw.idx) >>
                                     ELSE << >>)
                        left == pw.dwords - dwords_consumed
                        read_end ==
                          Max2(pw.read_end,
                               pw.cursor + EventHeaderDwords +
                                 (IF read2 THEN StatHeaderDwords
                                  ELSE IF is_snap THEN 1 ELSE 0))
                        p == [pw EXCEPT
                                !.dwords = left,
                                !.cursor = @ + dwords_consumed,
                                !.idx = @ + 1,
                                !.read_end = read_end,
                                !.ub = ub]
                    IN /\ oob => pw.ub < MaxUBReads
                       /\ IF left = 0
                          THEN LeaveRegion(o, p)
                          ELSE /\ out' = o
                               /\ pw' = p
                               /\ UNCHANGED <<pc, heap, ret>>
  /\ UNCHANGED <<caller, nsectors_0x24, nsectors_0x25, reads, internal_status,
                 ocp_strings_header, ocp_strings, sw, ocp_data_header, max_dword,
                 logs, rf>>
  /\ UNCHANGED fn

\* a walk reads its next descriptor header outside the block logs and the
\* process is killed by the read
WalkCrash ==
  /\ pc \in {"print_stats", "print_events"}
  /\ pw.ub < MaxUBReads
  /\ LET at == pw.bytes_printed \div 4 + pw.cursor
     IN \/ OutOfBlock(at)
        \/ /\ pc = "print_stats"
           /\ ~OutOfBlock(at)
           /\ StatId(logs[at + 1]) # 0
           /\ \/ OutOfBlock(at + 1)
              \/ /\ ~OutOfBlock(at + 1)
                 /\ ocp_print_stat_desc(logs[at + 1], logs[at + 2])
                 /\ IsArray(logs[at + 1])
                 /\ OutOfBlock(at + 2)
        \/ /\ pc = "print_events"
           /\ ~OutOfBlock(at)
           /\ EventClass(logs[at + 1]) = OCP_EVENT_CLASS_STATISTIC_SNAP
           /\ \/ OutOfBlock(at + 1)
              \/ /\ ~OutOfBlock(at + 1)
                 /\ \/ ~ULess(pw.dwords * 4, SnapHeaderBytes)
                    \/ ocp_get_stat_type(StatInfo0(logs[at + 2]))
                 /\ OutOfBlock(at + 2)
  /\ pc' = "crashed"
  /\ pw' = [pw EXCEPT !.ub = @ + 1]
  /\ UNCHANGED <<caller, nsectors_0x24, nsectors_0x25, reads, internal_status,
                 ocp_strings_header, ocp_strings, sw, ocp_data_header, max_dword,
                 logs, rf, out, heap, ret>>
  /\ UNCHANGED fn

\* ------------------------------------------------------------------------
\* Identifier resolver, timestamp and GUID helpers of ocptelemetryprint.cpp
\* ------------------------------------------------------------------------
\* ids of ocp_builtin_stat_str
BuiltinStatIds ==
  {2, 3} \cup (8193..8234) \cup (16385..16412) \cup (24577..24582)

\* the class-specific name tables of the event classes: table and largest id
EventTable ==
  (1 :> [name |-> "ocp_timestamp_event_id_str", max |-> 2]) @@
  (4 :> [name |-> "ocp_reset_event_id_str", max |-> 8]) @@
  (6 :> [name |-> "ocp_fw_assert_event_id_str", max |-> 7]) @@
  (7 :> [name |-> "ocp_temperature_event_id_str", max |-> 2]) @@
  (8 :> [name |-> "ocp_media_event_id_str", max |-> 7]) @@
  (9 :> [name |-> "ocp_media_wear_event_id_str", max |-> 0]) @@
  (11 :> [name |-> "ocp_virtual_fifo_event_id_str", max |-> 1]) @@
  (12 :> [name |-> "ocp_sata_phy_link_event_id_str", max |-> 16]) @@
  (13 :> [name |-> "ocp_sata_transport_event_id_str", max |-> 3]) @@
  (14 :> [name |-> "ocp_sas_phy_link_event_id_str", max |-> 12]) @@
  (15 :> [name |-> "ocp_sas_transport_event_id_str", max |-> 8])

\* a name copied from a compiled-in table
BuiltinName(table, index) == [kind |-> "builtin", table |-> table, index |-> index]

\* a name given as a literal
LiteralName(text) == [kind |-> "literal", text |-> text]

\* the C string held by a buffer: the bytes before the first NUL
RECURSIVE CStr(_)
CStr(bytes) ==
  IF bytes = << >> \/ Head(bytes) = 0 THEN << >>
  ELSE <<Head(bytes)>> \o CStr(Tail(bytes))

\* values a byte read beyond the ASCII blob may produce
GarbageBytes == {0, 90}

\* the names memcpy of n bytes at &ocp_string_ascii_table[offset] followed
\* by a NUL may leave in the buffer: the blob bytes while the range lies in
\* the blob, anything a read beyond it produces otherwise
AsciiNames(blob, e, n) ==
  IF e.offset + n <= Len(blob)
  THEN { [kind |-> "ascii", entry |-> e,
          text |-> CStr([i \in 1..n |-> blob[e.offset + i]])] }
  ELSE { [kind |-> "ascii", entry |-> e,
          text |-> CStr([i \in 1..n |->
                          IF e.offset + i <= Len(blob)
                          THEN blob[e.offset + i] ELSE g])] : g \in GarbageBytes }
       \cup { [kind |-> "crash"] }

\* mutant: the catalog is looked up before the built-in table
ocp_stat_id_to_strMut(string_def, id) ==
  IF id \in DOMAIN string_def.stat_id_string_map
  THEN AsciiNames(string_def.ocp_string_ascii_table,
                  string_def.stat_id_string_map[id],
                  string_def.stat_id_string_map[id].len)
  ELSE IF id \in BuiltinStatIds
       THEN { BuiltinName("ocp_builtin_stat_str", id) }
       ELSE IF id >= VendorUniqueIdMin
            THEN { LiteralName("Vendor Unique ID") }
            ELSE { LiteralName("Reserved ID") }

\* ocp_stat_id_to_str: the contents stat_str may have on return
ocp_stat_id_to_str(string_def, id) ==
  IF id \in BuiltinStatIds
  THEN { BuiltinName("ocp_builtin_stat_str", id) }
  ELSE IF id >= VendorUniqueIdMin
       THEN IF id \in DOMAIN string_def.stat_id_string_map
            THEN AsciiNames(string_def.ocp_string_ascii_table,
                            string_def.stat_id_string_map[id],
                            string_def.stat_id_string_map[id].len)
            ELSE { LiteralName("Vendor Unique ID") }
       ELSE { LiteralName("Reserved ID") }

\* sg_get_unaligned_le16 and sg_get_unaligned_be16 of two bytes
sg_get_unaligned_le16(p) == p[2] * 256 + p[1]

sg_get_unaligned_be16(p) == p[1] * 256 + p[2]

\* sg_get_unaligned_be32 and sg_get_unaligned_le32 of four bytes: the value as
\* two 16-bit limbs, the most significant first
sg_get_unaligned_be32(p) == << p[1] * 256 + p[2], p[3] * 256 + p[4] >>

sg_get_unaligned_le32(p) == << p[4] * 256 + p[3], p[2] * 256 + p[1] >>

\* OCP_EVENT_KEY(_CLASS, _EVENT_ID)
OCP_EVENT_KEY(class, event_id) == class * 65536 + event_id[2] * 256 + event_id[1]

\* the class-specific *_event_id_to_str functions: the name when they return
\* true, nothing when they return false
ClassEventName(dbg_class, event_id) ==
  IF dbg_class \in DOMAIN EventTable
  THEN IF event_id <= EventTable[dbg_class].max
       THEN { BuiltinName(EventTable[dbg_class].name, event_id) }
       ELSE { }
  ELSE IF dbg_class = OCP_EVENT_CLASS_BOOT_SEQ
       THEN IF event_id <= 3
            THEN { BuiltinName("ocp_ssd_boot_seq_event_id_str", event_id) }
            ELSE IF event_id >= 256 /\ event_id <= 259
                 THEN { BuiltinName("ocp_hdd_boot_seq_event_id_str", event_id - 256) }
                 ELSE { }
       ELSE { }

\* event_id_to_str: the contents event_str may have on return, kind "none"
\* when the function returns false
event_id_to_str(string_def, dbg_class, id) ==
  LET event_id == sg_get_unaligned_le16(id)
      key == OCP_EVENT_KEY(dbg_class, id)
  IN IF dbg_class = OCP_EVENT_CLASS_STATISTIC_SNAP
     THEN { [kind |-> "none"] }
     ELSE IF ClassEventName(dbg_class, event_id) # { }
          THEN ClassEventName(dbg_class, event_id)
          ELSE IF key \in DOMAIN string_def.event_string_map
               THEN AsciiNames(string_def.ocp_string_ascii_table,
                               string_def.event_string_map[key],
                               MIN(OCP_STR_BUF_SIZE - 1,
                                   string_def.event_string_map[key].len))
               ELSE IF event_id >= VendorUniqueIdMin
                    THEN { LiteralName("Vendor Unique ID") }
                    ELSE { LiteralName("Reserved ID") }

\* conversion of an int to uint8_t
U8(x) == ((x % 256) + 256) % 256

\* sizeof of the class-specific structure print_event_desc steps over
ClassPortion(dbg_class) ==
  IF dbg_class = OCP_EVENT_CLASS_TIMESTAMP THEN 8
  ELSE IF dbg_class = OCP_EVENT_CLASS_MEDIA_WEAR THEN 12
  ELSE IF dbg_class = OCP_EVENT_CLASS_VIRTUAL_FIFO THEN 4
  ELSE IF dbg_class = OCP_EVENT_CLASS_SATA_TRANSPORT THEN 28
  ELSE 0

\* the bytes from the start of the event body the class-specific case reads:
\* an 8-byte timestamp, three 8-byte reads at offsets 0, 4 and 8 of the media
\* wear body, the embedded statistic header, the 2-byte marker, the 28-byte FIS
ClassBytesRead(dbg_class, event_id) ==
  IF dbg_class = OCP_EVENT_CLASS_TIMESTAMP THEN 8
  ELSE IF dbg_class = OCP_EVENT_CLASS_MEDIA_WEAR
       THEN IF event_id = 0 THEN 16 ELSE 0
  ELSE IF dbg_class = OCP_EVENT_CLASS_STATISTIC_SNAP THEN StatHeaderDwords * 4
  ELSE IF dbg_class = OCP_EVENT_CLASS_VIRTUAL_FIFO THEN 2
  ELSE IF dbg_class = OCP_EVENT_CLASS_SATA_TRANSPORT THEN 28
  ELSE 0

\* print_event_desc(jref, dbg_class, id, data, size, ...): what it may emit
\* for an event body that starts with the bytes marker.  size is the int the
\* caller passes; the parameter is a uint8_t.  vu_id tells that a VU event id
\* was taken at byte vu_id_at of the body, vu_data is the number of bytes
\* dumped as VU data and read_end the number of body bytes read.
print_event_desc(string_def, dbg_class, id, marker, size) ==
  LET size0 == U8(size)
      c == ClassPortion(dbg_class)
      size1 == IF dbg_class = OCP_EVENT_CLASS_STATISTIC_SNAP THEN 0
               ELSE U8(size0 - c)
      vu == size1 > 0 /\ dbg_class < VuClassLimit
      size2 == IF vu THEN U8(size1 - 2) ELSE size1
      m == sg_get_unaligned_le16(marker)
      vf_names == IF dbg_class = OCP_EVENT_CLASS_VIRTUAL_FIFO
                  THEN event_id_to_str(string_def, dbg_class, marker)
                  ELSE { [kind |-> "none"] }
  IN { [id_name |-> n,
        vf |-> IF dbg_class = OCP_EVENT_CLASS_VIRTUAL_FIFO
               THEN [kind |-> "virtual_fifo", data_area |-> U8((m \div 2048) % 8),
                     number |-> m % 2048, name |-> vn]
               ELSE [kind |-> "none"],
        vu_id |-> vu,
        vu_id_at |-> c,
        vu_data |-> size2,
        read_end |->
          Max2(ClassBytesRead(dbg_class, sg_get_unaligned_le16(id)),
               Max2(IF vu THEN c + 2 ELSE 0,
                    IF size2 > 0 THEN c + (IF vu THEN 2 ELSE 0) + size2 ELSE 0)),
        crashed |-> n.kind = "crash" \/ vn.kind = "crash"] :
       n \in event_id_to_str(string_def, dbg_class, id), vn \in vf_names }

\* values a byte read in front of an ASCII field may produce
GarbageChars == {32, 90}

\* the do-while loop of ocp_ascii_to_c_str at index i (a size_t residue)
\* after ub reads outside the field val: the values i may have when the loop
\* is left, and a fault of a read outside the field
RECURSIVE AsciiScan(_, _, _)
AsciiScan(val, i, ub) ==
  LET inside == i >= 0 /\ i < Len(val)
      ub1 == IF inside THEN ub ELSE ub + 1
      bytes == IF inside THEN { val[i + 1] }
               ELSE IF ub < MaxUBReads THEN GarbageChars ELSE { }
      after(b) == IF b # 32
                  THEN { [crash |-> FALSE, i |-> i + 1, ub |-> ub1] }
                  ELSE IF i - 1 # 0
                       THEN AsciiScan(val, i - 1, ub1)
                       ELSE { [crash |-> FALSE, i |-> 0, ub |-> ub1] }
  IN UNION { after(b) : b \in bytes }
       \cup (IF ~inside /\ ub < MaxUBReads
             THEN { [crash |-> TRUE, i |-> 0, ub |-> ub1] } ELSE { })

\* ocp_ascii_to_c_str(data, size, c_str, len) for the field val of size
\* bytes: the bytes c_str may hold in front of the NUL, and the number of
\* reads outside the field
ocp_ascii_to_c_str(val, len) ==
  { IF r.crash
    THEN [kind |-> "crash", ub |-> r.ub]
    ELSE [kind |-> "str",
          text |-> SubSeq(val, 1, MIN(r.i, len - 1)),
          ub |-> r.ub] :
    r \in AsciiScan(val, Len(val) - 1, 0) }

\* ocp_print_stat_value(jref, type, data, size): the bytes it reads, as the
\* offsets [lo, hi) from data.  An integer is read for the sizes 1, 2, 4 and
\* 8 only; an ASCII value is scanned from its last byte down, in front of
\* data when the loop of ocp_ascii_to_c_str runs past index 0
ocp_print_stat_value(type, size) ==
  IF type \in {OCP_DATA_TYPE_INT, OCP_DATA_TYPE_UINT}
  THEN { [lo |-> 0, hi |-> IF size \in {1, 2, 4, 8} THEN size ELSE 0,
          wrapped |-> FALSE] }
  ELSE IF type = OCP_DATA_TYPE_ASCII
       THEN IF size = 0
            THEN { [lo |-> 0 - 1, hi |-> 0, wrapped |-> FALSE] }
            ELSE IF size = 1
                 THEN { [lo |-> 0, hi |-> 1, wrapped |-> FALSE],
                        [lo |-> 0 - 1, hi |-> 1, wrapped |-> FALSE] }
                 ELSE { [lo |-> 0, hi |-> size, wrapped |-> FALSE] }
       ELSE { [lo |-> 0, hi |-> size, wrapped |-> FALSE] }

\* print_ata_log_stat_desc: the three fields in front (4 bytes) and 512
\* bytes for each of the log_page_count pages
print_ata_log_stat_desc(log_page_count) ==
  { [lo |-> 0, hi |-> 4 + 512 * log_page_count, wrapped |-> FALSE] }

\* print_scsi_log_stat_desc: the fields in front and a dump of
\* (statistic_data_size - 1) << 2 bytes, a size_t; wrapped when that length
\* is a residue below 0
print_scsi_log_stat_desc(statistic_data_size) ==
  LET len == (statistic_data_size - 1) * 4
  IN { [lo |-> 0, hi |-> IF len < 0 THEN 4 ELSE 4 + len, wrapped |-> len < 0] }

\* print_hdd_spinup_stat_desc: spinup_max, spinup_min and the history up to
\* its first zero entry, hist being the number of entries in front of it
print_hdd_spinup_stat_desc(hist) ==
  { [lo |-> 0,
     hi |-> 4 + 2 * (IF hist < SpinupHistLen THEN hist + 1 ELSE SpinupHistLen),
     wrapped |-> FALSE] }

\* print_custom_stat_desc
print_custom_stat_desc(id, data_type, statistic_data_size, f) ==
  IF id = AtaLogStatId THEN print_ata_log_stat_desc(f.log_page_count)
  ELSE IF id = ScsiLogStatId THEN print_scsi_log_stat_desc(statistic_data_size)
  ELSE IF id = HddSpinupStatId THEN print_hdd_spinup_stat_desc(f.hist)
  ELSE ocp_print_stat_value(data_type, statistic_data_size * 4)

\* the switch on stat_type of ocp_print_stat_desc: the bytes of the
\* descriptor body (the bytes after the 8-byte header) it reads
StatBodyReads(stat_type, data_type, id, statistic_data_size, f) ==
  IF stat_type = OCP_STAT_TYPE_SINGLE
  THEN ocp_print_stat_value(data_type, statistic_data_size * 4)
  ELSE IF stat_type = OCP_STAT_TYPE_ARRAY
       THEN { [lo |-> 0,
               hi |-> IF r.hi = 0 THEN 4
                      ELSE 4 + f.number_of_elements * (f.element_size + 1) + r.hi,
               wrapped |-> FALSE] :
              r \in ocp_print_stat_value(data_type, f.element_size + 1) }
       ELSE print_custom_stat_desc(id, data_type, statistic_data_size, f)

\* mutant: the protocol is taken from bits 1..0 of timestamp_info
TimestampProtocolMut(timestamp_info) == timestamp_info % 4

\* protocol = (timestamp_info & 0x30) >> 4
TimestampProtocol(timestamp_info) == (timestamp_info \div 16) % 4

\* ocp_telemetry_timestamp_to_uint64: the uint64_t as three 16-bit limbs, the
\* most significant first (the limb above them is always 0)
ocp_telemetry_timestamp_to_uint64(timestamp, timestamp_info) ==
  LET protocol == TimestampProtocol(timestamp_info)
  IN IF protocol = 1
     THEN sg_get_unaligned_be32(SubSeq(timestamp, 1, 4))
            \o << sg_get_unaligned_be16(SubSeq(timestamp, 5, 6)) >>
     ELSE IF protocol = 2
          THEN sg_get_unaligned_le32(SubSeq(timestamp, 3, 6))
                 \o << sg_get_unaligned_le16(SubSeq(timestamp, 1, 2)) >>
          ELSE << 0, 0, 0 >>

\* the characters "%02X" prints for a byte
HexDigits ==
  << "0", "1", "2", "3", "4", "5", "6", "7", "8", "9", "A", "B", "C", "D", "E", "F" >>

Hex02X(b) == << HexDigits[(b \div 16) + 1], HexDigits[(b % 16) + 1] >>

\* mutant: the bytes are rendered in memory order
ocp_guid_to_strMut(guid) ==
  [ c \in 1..(2 * OCP_GUID_LEN) |-> Hex02X(guid[((c - 1) \div 2) + 1])[((c - 1) % 2) + 1] ]
    \o << "h" >>

\* ocp_guid_to_str: str as a sequence of characters; the pair written in round
\* i (from 0) is that of guid[OCP_GUID_LEN - i - 1]
ocp_guid_to_str(guid) ==
  [ c \in 1..(2 * OCP_GUID_LEN) |->
      Hex02X(guid[OCP_GUID_LEN - ((c - 1) \div 2)])[((c - 1) % 2) + 1] ]
    \o << "h" >>

\* inputs of the helpers
CatEntries == { [len |-> 3, offset |-> 1], [len |-> 2, offset |-> 7] }

\* the ASCII blobs: two of 8 bytes and the one of a log whose ascii_table_size
\* is 0, for which no buffer is allocated and the pointer is never set
Blobs ==
  { <<65, 66, 67, 68, 69, 70, 71, 72>>, <<65, 66, 0, 68, 69, 70, 71, 72>>, << >> }

CatStatIds == {8193, 256, 32769}

CatEventKeys == { <<5, <<1, 0>>>>, <<5, <<4, 1>>>>, <<10, <<0, 0>>>>, <<2, <<0, 128>>>> }

SmallSubsets(S) == { D \in SUBSET S : Cardinality(D) <= MaxCatalog }

StatMaps == UNION { [D -> CatEntries] : D \in SmallSubsets(CatStatIds) }

EventMaps ==
  UNION { [ { OCP_EVENT_KEY(k[1], k[2]) : k \in D } -> CatEntries ] :
          D \in SmallSubsets(CatEventKeys) }

StringDef(stats, events, blob) ==
  [stat_id_string_map |-> stats, event_string_map |-> events,
   ocp_string_ascii_table |-> blob]

StatIdInputs == {0, 2, 8193, 8234, 8235, 256, 32767, 32768, 32769, 65535}

EventClassInputs == {1, 2, 4, 5, 9, 10, 11, 15, 128}

EventIdInputs ==
  { <<0, 0>>, <<1, 0>>, <<2, 0>>, <<3, 0>>, <<4, 0>>, <<8, 0>>, <<9, 0>>,
    <<0, 1>>, <<3, 1>>, <<4, 1>>, <<255, 127>>, <<0, 128>> }

ByteInputs == {0, 1, 255}

InfoInputs == {0, 16, 32, 48, 65487, 65519, 18, 33}

\* GUIDs: four bytes vary, the others are 17 * their position
GuidInputs ==
  { [ i \in 1..OCP_GUID_LEN |->
        IF i = 1 THEN a ELSE IF i = 2 THEN b ELSE IF i = 9 THEN c
        ELSE IF i = OCP_GUID_LEN THEN d ELSE (17 * i) % 256 ] :
    a \in {0, 10, 171, 255}, b \in {0, 10, 171, 255},
    c \in {0, 10, 171, 255}, d \in {0, 10, 171, 255} }

\* ASCII fields: the values of ASCII statistics up to MaxLen bytes and the
\* 16-byte FIFO names of the strings header made of k letters and spaces
AsciiFields ==
  UNION { [1..n -> {32, 65}] : n \in 0..MaxLen }
    \cup { [i \in 1..16 |-> IF i <= k THEN 64 + i ELSE 32] : k \in 0..16 }
    \cup { [i \in 1..16 |-> IF i = k THEN 65 ELSE 32] : k \in 1..16 }

\* inputs of the body decode of ocp_print_stat_desc: the fields of the body
\* the decode depends on
BodyFields ==
  [log_page_count : {0, 1, 2}, hist : {0, 3, 10},
   element_size : {0, 3}, number_of_elements : {0, 1}]

BodyStatIds == {1, 2, 3, 24582, 32769}

StatSizeInputs == {0, 1, 2, 6, 129, 257}

\* inputs of print_event_desc
VfMarkers == { <<0, 0>>, <<1, 0>>, <<2, 0>>, <<49, 4>>, <<255, 255>> }

VfCatKeys == { <<11, <<1, 0>>>>, <<11, <<2, 0>>>>, <<11, <<49, 4>>>> }

VfMaps ==
  UNION { [ { OCP_EVENT_KEY(k[1], k[2]) : k \in D } -> CatEntries ] :
          D \in SmallSubsets(VfCatKeys) }

PrintClassInputs == {1, 2, 9, 10, 11, 13, 127, 128, 255}

DataSizeInputs == {0, 1, 2, 3, 4, 7, 8, 63, 64, 65, 255}

\* ocp_print_stat_desc resolves the name of a statistic id
CallStatIdToStr ==
  /\ pc = "fn"
  /\ fn = NoCall
  /\ \E stats \in StatMaps, blob \in Blobs, id \in StatIdInputs :
       LET string_def == StringDef(stats, << >>, blob)
       IN \E name \in ocp_stat_id_to_str(string_def, id) :
            fn' = [op |-> "ocp_stat_id_to_str", string_def |-> string_def,
                   id |-> id, res |-> name]
  /\ UNCHANGED <<caller, nsectors_0x24, nsectors_0x25, pc, reads, internal_status,
                 ocp_strings_header, ocp_strings, sw, ocp_data_header, max_dword,
                 logs, rf, pw, out, heap, ret>>

\* print_event_desc resolves the name of an event id
CallEventIdToStr ==
  /\ pc = "fn"
  /\ fn = NoCall
  /\ \E events \in EventMaps, blob \in Blobs,
        dbg_class \in EventClassInputs, id \in EventIdInputs :
       LET string_def == StringDef(<< >>, events, blob)
       IN \E name \in event_id_to_str(string_def, dbg_class, id) :
            fn' = [op |-> "event_id_to_str", string_def |-> string_def,
                   dbg_class |-> dbg_class, id |-> id, res |-> name]
  /\ UNCHANGED <<caller, nsectors_0x24, nsectors_0x25, pc, reads, internal_status,
                 ocp_strings_header, ocp_strings, sw, ocp_data_header, max_dword,
                 logs, rf, pw, out, heap, ret>>

\* a header printer converts the header timestamp
CallTimestampToUint64 ==
  /\ pc = "fn"
  /\ fn = NoCall
  /\ \E timestamp \in [1..6 -> ByteInputs], timestamp_info \in InfoInputs :
       fn' = [op |-> "ocp_telemetry_timestamp_to_uint64",
              timestamp |-> timestamp, timestamp_info |-> timestamp_info,
              res |-> ocp_telemetry_timestamp_to_uint64(timestamp, timestamp_info)]
  /\ UNCHANGED <<caller, nsectors_0x24, nsectors_0x25, pc, reads, internal_status,
                 ocp_strings_header, ocp_strings, sw, ocp_data_header, max_dword,
                 logs, rf, pw, out, heap, ret>>

\* a header printer renders the header GUID
CallGuidToStr ==
  /\ pc = "fn"
  /\ fn = NoCall
  /\ \E guid \in GuidInputs :
       fn' = [op |-> "ocp_guid_to_str", guid |-> guid, res |-> ocp_guid_to_str(guid)]
  /\ UNCHANGED <<caller, nsectors_0x24, nsectors_0x25, pc, reads, internal_status,
                 ocp_strings_header, ocp_strings, sw, ocp_data_header, max_dword,
                 logs, rf, pw, out, heap, ret>>

\* ocp_print_telemetry_events prints one event: print_event_desc(jref_desc,
\* ep->debug_event_class_type, ep->event_id, ep->data, ep->data_size << 2, ...)
CallPrintEventDesc ==
  /\ pc = "fn"
  /\ fn = NoCall
  /\ \E dbg_class \in PrintClassInputs, data_size \in DataSizeInputs,
        id \in { <<0, 0>>, <<2, 0>> } :
       \E marker \in (IF dbg_class = OCP_EVENT_CLASS_VIRTUAL_FIFO
                      THEN VfMarkers ELSE { <<0, 0>> }),
          events \in (IF dbg_class = OCP_EVENT_CLASS_VIRTUAL_FIFO
                      THEN VfMaps ELSE { << >> }),
          blob \in (IF dbg_class = OCP_EVENT_CLASS_VIRTUAL_FIFO
                    THEN Blobs ELSE { << >> }) :
         LET string_def == StringDef(<< >>, events, blob)
         IN \E r \in print_event_desc(string_def, dbg_class, id, marker, data_size * 4) :
              fn' = [op |-> "print_event_desc", string_def |-> string_def,
                     dbg_class |-> dbg_class, id |-> id, marker |-> marker,
                     data_size |-> data_size, res |-> r]
  /\ UNCHANGED <<caller, nsectors_0x24, nsectors_0x25, pc, reads, internal_status,
                 ocp_strings_header, ocp_strings, sw, ocp_data_header, max_dword,
                 logs, rf, pw, out, heap, ret>>

\* ocp_print_stat_value and ocp_print_telemetry_strings_header convert an
\* ASCII field: the destination holds size + 1 bytes, or fewer
CallAsciiToCStr ==
  /\ pc = "fn"
  /\ fn = NoCall
  /\ \E val \in AsciiFields :
       \E len \in {1, 2, Len(val) + 1} :
         \E r \in ocp_ascii_to_c_str(val, len) :
           fn' = [op |-> "ocp_ascii_to_c_str", data |-> val, len |-> len, res |-> r]
  /\ UNCHANGED <<caller, nsectors_0x24, nsectors_0x25, pc, reads, internal_status,
                 ocp_strings_header, ocp_strings, sw, ocp_data_header, max_dword,
                 logs, rf, pw, out, heap, ret>>

\* ocp_print_stat_desc decodes the body of a well-formed descriptor
CallPrintStatBody ==
  /\ pc = "fn"
  /\ fn = NoCall
  /\ \E stat_type \in 0..OCP_STAT_TYPE_CUSTOM, data_type \in 0..OCP_DATA_TYPE_ASCII,
        id \in BodyStatIds, size \in StatSizeInputs, f \in BodyFields :
       \E r \in StatBodyReads(stat_type, data_type, id, size, f) :
         fn' = [op |-> "ocp_print_stat_desc", stat_type |-> stat_type,
                data_type |-> data_type, id |-> id, statistic_data_size |-> size,
                body |-> f, res |-> r]
  /\ UNCHANGED <<caller, nsectors_0x24, nsectors_0x25, pc, reads, internal_status,
                 ocp_strings_header, ocp_strings, sw, ocp_data_header, max_dword,
                 logs, rf, pw, out, heap, ret>>

\* ------------------------------------------------------------------------
\* Specifications
\* ------------------------------------------------------------------------
\* print_ata_ocp_telemetry_log
Next ==
  \/ StringsReadPage0
  \/ StringsReadPage1
  \/ StringsReadTablePage
  \/ StatsReadPage0
  \/ StatsReadPage1
  \/ StatsReadRegionPage
  \/ WalkStatistic
  \/ WalkEvent
  \/ WalkCrash

Spec == Init /\ [][Next]_vars

\* ocp_print_telemetry_statistics or ocp_print_telemetry_events is entered on
\* a region buffer of n dwords with any content
InitWalk ==
  /\ caller = "walk"
  /\ fn = NoCall
  /\ nsectors_0x24 = 0
  /\ nsectors_0x25 = 0
  /\ reads = <<>>
  /\ internal_status = Uninit
  /\ ocp_strings_header = NoStringsHeader
  /\ ocp_strings = [chunks |-> <<>>, ascii_bytes |-> 0]
  /\ sw = NoWalk
  /\ max_dword = Uninit
  /\ rf = NoFetch
  /\ out = <<>>
  /\ heap = [logs |-> "live", ascii |-> "none"]
  /\ ret = [strings |-> "ok", stats |-> "ok", print |-> "none"]
  /\ \/ \E n \in 1..MaxLen :
       /\ logs \in [1..n -> WalkDwords]
       /\ \/ /\ ocp_data_header =
                  DataHdr(Reg(0, n), Reg(0, 0), Reg(0, 0), Reg(0, 0))
             /\ pc = "print_stats"
             /\ pw = [NoPrint EXCEPT !.region = 1, !.dwords = n]
          \/ /\ ocp_data_header =
                  DataHdr(Reg(0, 0), Reg(0, 0), Reg(0, n), Reg(0, 0))
             /\ pc = "print_events"
             /\ pw = [NoPrint EXCEPT !.region = 3, !.dwords = n]
     \/ \E k \in 1..MaxDescs :
          \E ds \in [1..k -> DescShapes] :
            \E tail \in {<< >>, <<0>>} :
              /\ logs = Flatten(ds) \o tail
              /\ ocp_data_header =
                   DataHdr(Reg(0, Len(Flatten(ds) \o tail)), Reg(0, 0),
                           Reg(0, 0), Reg(0, 0))
              /\ pc = "print_stats"
              /\ pw = [NoPrint EXCEPT !.region = 1,
                                      !.dwords = Len(Flatten(ds) \o tail)]

NextWalk == WalkStatistic \/ WalkEvent \/ WalkCrash

SpecWalk == InitWalk /\ [][NextWalk]_vars

\* one of the helpers is called on its own
InitFn ==
  /\ caller = "fn"
  /\ nsectors_0x24 = 0
  /\ nsectors_0x25 = 0
  /\ pc = "fn"
  /\ InitCommon

NextFn ==
  \/ CallStatIdToStr
  \/ CallEventIdToStr
  \/ CallTimestampToUint64
  \/ CallGuidToStr
  \/ CallPrintEventDesc
  \/ CallAsciiToCStr
  \/ CallPrintStatBody

SpecFn == InitFn /\ [][NextFn]_vars


\* ------------------------------------------------------------------------
\* Properties
\* ------------------------------------------------------------------------
Budget(log) == IF log = LOG_SAVED THEN nsectors_0x25 ELSE nsectors_0x24

RetOf(log) == IF log = LOG_SAVED THEN ret.strings ELSE ret.stats

ReadIdx == 1..Len(reads)

SetMax(S) == CHOOSE x \in S : \A y \in S : y <= x

Term(cond, v) == IF cond THEN {v} ELSE {}

\* C1: no page read of log 0x25 or log 0x24 asks for a page whose index is
\* greater than or equal to the sector budget given for that log.
C1_PagesWithinBudget ==
  \A i \in ReadIdx : reads[i].page < Budget(reads[i].log)

\* C2: in both entry points, a page 0 whose area1_last_log_page is 0 makes the
\* decode fail (NoData) and no page from 1 on of that log is read; a page from
\* 1 on is read only after page 0 of that log was read successfully with a
\* non-zero area1_last_log_page.
C2_NoDataStopsReads ==
  /\ \A i \in ReadIdx :
       (reads[i].page = 0 /\ reads[i].ok /\ reads[i].area1 = 0) =>
         /\ RetOf(reads[i].log) = "nodata"
         /\ \A j \in ReadIdx : reads[j].log = reads[i].log => reads[j].page = 0
  /\ \A j \in ReadIdx :
       reads[j].page >= 1 =>
         \E i \in 1..(j - 1) :
           /\ reads[i].log = reads[j].log
           /\ reads[i].page = 0
           /\ reads[i].ok
           /\ reads[i].area1 # 0

\* C2 witness: log 0x25 was decoded and page 0 of log 0x24 then came back with
\* area1_last_log_page = 0.
C2_Witness ==
  /\ pc = "done"
  /\ ret.strings = "ok"
  /\ ret.stats = "nodata"
  /\ reads[Len(reads)] =
       [log |-> LOG_CURRENT, page |-> 0, ok |-> TRUE, area1 |-> 0]

\* C3: for log 0x24 the validation succeeds exactly when the sector budget is
\* at least ceil(max_dword / 128) + 1 with the mathematical ceiling; otherwise
\* the decode fails before any region page is fetched.
C3_ValidationIsCeiling ==
  ocp_data_header.valid =>
    /\ (ret.stats # "budget") <=>
         (nsectors_0x24 >= CeilDiv(max_dword, PageDwords) + 1)
    /\ ret.stats = "budget" =>
         \A i \in ReadIdx : reads[i].log = LOG_CURRENT => reads[i].page <= 1

\* C4 as claimed: max_dword is the maximum of the header size, the end of S2,
\* the end of S1 only when S2 is empty, the end of E2, and the end of E1 only
\* when E2 is empty (an empty region contributing nothing).
C4_MaxDwordAsClaimed ==
  ocp_data_header.valid =>
    LET h == ocp_data_header IN
    max_dword =
      SetMax({DataHeaderSize}
             \cup Term(h.statistic2.size_dword > 0, RegionEnd(h.statistic2))
             \cup Term(h.statistic2.size_dword = 0 /\ h.statistic1.size_dword > 0,
                       RegionEnd(h.statistic1))
             \cup Term(h.event2_FIFO.size_dword > 0, RegionEnd(h.event2_FIFO))
             \cup Term(h.event2_FIFO.size_dword = 0 /\ h.event1_FIFO.size_dword > 0,
                       RegionEnd(h.event1_FIFO)))

\* C4 amended: max_dword is the maximum of the header size (512), the end of a
\* non-empty S2, the end of a non-empty S1 when S2 is empty or ends at or
\* below the header size, the end of a non-empty E2, and the end of a
\* non-empty E1 when E2 is empty or ends at or below the maximum of the
\* header size and the statistics terms.
C4_MaxDwordAmended ==
  ocp_data_header.valid =>
    LET h == ocp_data_header
        stat_terms ==
          {DataHeaderSize}
          \cup Term(h.statistic2.size_dword > 0, RegionEnd(h.statistic2))
          \cup Term(/\ h.statistic1.size_dword > 0
                    /\ \/ h.statistic2.size_dword = 0
                       \/ RegionEnd(h.statistic2) <= DataHeaderSize,
                    RegionEnd(h.statistic1))
        event_terms ==
          Term(h.event2_FIFO.size_dword > 0, RegionEnd(h.event2_FIFO))
          \cup Term(/\ h.event1_FIFO.size_dword > 0
                    /\ \/ h.event2_FIFO.size_dword = 0
                       \/ RegionEnd(h.event2_FIFO) <= SetMax(stat_terms),
                    RegionEnd(h.event1_FIFO))
    IN max_dword = SetMax(stat_terms \cup event_terms)

\* C4 witness: S2 is not empty and ends inside the header size, S1 ends beyond
\* it, and max_dword is the end of S1.
C4_Witness ==
  /\ ocp_data_header.valid
  /\ ocp_data_header.statistic2.size_dword > 0
  /\ RegionEnd(ocp_data_header.statistic2) <= DataHeaderSize
  /\ ocp_data_header.statistic1.size_dword > 0
  /\ RegionEnd(ocp_data_header.statistic1) > DataHeaderSize
  /\ ocp_data_header.event1_FIFO.size_dword = 0
  /\ ocp_data_header.event2_FIFO.size_dword = 0
  /\ max_dword = RegionEnd(ocp_data_header.statistic1)

\* C5: for log 0x25 the decode goes past the budget check exactly when the
\* sector budget is at least ceil((108 + the four table sizes) / 128) + 1 with
\* the mathematical ceiling; otherwise it fails without reading a page beyond
\* page 1.
C5_StringsBudgetIsCeiling ==
  ocp_strings_header.valid =>
    /\ (ret.strings # "budget") <=>
         (nsectors_0x25 >=
            CeilDiv(StringsHeaderDwords + StringsDwordsToRead(ocp_strings_header),
                    PageDwords) + 1)
    /\ ret.strings = "budget" =>
         \A i \in ReadIdx : reads[i].log = LOG_SAVED => reads[i].page <= 1

\* C6: every non-empty region is stored, and handed to its decoder, as the
\* size_dword dwords [start_dword, start_dword + size_dword) of the log, dword
\* 0 being byte 0 of page 1 (the page asked for next is floor(d / 128) + 1 at
\* offset d mod 128), whatever the four (start, size) pairs are; the
\* offset used when printing a region is the offset it was stored at.
C6_RegionHandedLogDwords ==
  /\ pc = "stats_region" =>
       LET r == ocp_data_header[RegionOrder[rf.region]]
           base == rf.bytes_read \div 4
           next == r.start_dword + (r.size_dword - rf.dwords_to_read)
       IN /\ rf.page_idx = next \div 128 + 1
          /\ rf.page_offset = next % 128
          /\ \A i \in 1..(r.size_dword - rf.dwords_to_read) :
               logs[base + i] = Img(r.start_dword + i - 1)
  /\ pc \in {"print_stats", "print_events"} =>
       LET r == ocp_data_header[RegionOrder[PrintOrder[pw.region]]]
           base == pw.bytes_printed \div 4
       IN /\ pw.bytes_printed % 4 = 0
          /\ base + r.size_dword <= Len(logs)
          /\ pw.cursor = 0 => pw.dwords = r.size_dword
          /\ \A i \in 1..r.size_dword : logs[base + i] = Img(r.start_dword + i - 1)

\* C6 witness: event FIFO 2 is being printed after three regions that overlap
\* the header and each other, start off a page boundary and span pages.
C6_Witness ==
  /\ pc = "print_events"
  /\ pw.region = 4
  /\ ocp_data_header =
       DataHdr(Reg(127, 130), Reg(0, 2), Reg(610, 39), Reg(0, 2))

\* C7: the first failed page read ends the decode with failure; no page read
\* follows it, so the failed page is not asked for again.
C7_FirstFailureStops ==
  \A i \in ReadIdx :
    ~reads[i].ok =>
      /\ i = Len(reads)
      /\ pc = "done"
      /\ RetOf(reads[i].log) = "read_error"
      /\ ret.print = "false"

\* C7 witness: the second page of a region fetch failed.
C7_Witness ==
  /\ Len(reads) >= 2
  /\ ~reads[Len(reads)].ok
  /\ reads[Len(reads)].log = LOG_CURRENT
  /\ reads[Len(reads)].page >= 3
  /\ reads[Len(reads) - 1].log = LOG_CURRENT
  /\ reads[Len(reads) - 1].page = reads[Len(reads)].page - 1
  /\ reads[Len(reads) - 1].page >= 2

RegionSecs == { SectionName[k] : k \in 1..4 }

Rank(sec) == CHOOSE k \in 1..4 : SectionName[k] = sec

RegionItems == { i \in 1..Len(out) : out[i].sec \in RegionSecs }

\* C8: the region sections are emitted in the order statistic area 1,
\* statistic area 2, event FIFO 1, event FIFO 2 whatever the start offsets
\* are, the records of a region in buffer order, and no section is emitted
\* for a region of size 0.
C8_SectionsInOrder ==
  /\ \A i, j \in RegionItems :
       i < j =>
         /\ Rank(out[i].sec) <= Rank(out[j].sec)
         /\ out[i].sec = out[j].sec =>
              /\ out[j].kind # "section"
              /\ (out[i].kind = "descriptor" /\ out[j].kind = "descriptor")
                   => out[i].pos < out[j].pos
  /\ \A i \in RegionItems :
       ocp_data_header[RegionOrder[Rank(out[i].sec)]].size_dword > 0
  /\ (pc = "done" /\ ret.print = "true") =>
       \A k \in 1..4 :
         ocp_data_header[RegionOrder[k]].size_dword > 0 =>
           \E i \in RegionItems : out[i] = Emit(SectionName[k], "section", 0, 0)

\* C8 witness: a complete report of a log whose S2 lies before S1 and whose E2
\* lies before E1, each region holding records.
C8_Witness ==
  /\ pc = "done"
  /\ ret.print = "true"
  /\ pw.ub = 0
  /\ ocp_data_header =
       DataHdr(Reg(127, 130), Reg(0, 2), Reg(610, 39), Reg(0, 2))
  /\ \A k \in 1..4 :
       \E i \in RegionItems :
         out[i].sec = SectionName[k] /\ out[i].kind = "descriptor"

\* C9: every page read of log 0x25 comes before the first page read of log
\* 0x24, and when the strings decode fails no page of log 0x24 is read and
\* nothing is emitted.
C9_StringsBeforeTelemetry ==
  /\ \A i, j \in ReadIdx :
       (i < j /\ reads[i].log = LOG_CURRENT) => reads[j].log = LOG_CURRENT
  /\ (\E i \in ReadIdx : reads[i].log = LOG_CURRENT) => ret.strings = "ok"
  /\ ret.strings \notin {"none", "ok"} =>
       /\ \A i \in ReadIdx : reads[i].log = LOG_SAVED
       /\ out = << >>
       /\ ret.print = "false"

\* C9 witness: the strings decode failed on a table page after the header.
C9_Witness ==
  /\ caller = "print"
  /\ ret.strings = "read_error"
  /\ Len(reads) = 3
  /\ reads[3].page = 2

\* C10: the statistics walk never moves its cursor past the end of the region
\* and reads no descriptor header beyond the region.
C10_StatWalkStaysInRegion ==
  (caller = "walk" /\ pw.region = 1) =>
    /\ pw.cursor <= ocp_data_header.statistic1.size_dword
    /\ pw.read_end <= ocp_data_header.statistic1.size_dword

\* C11: the event walk never moves its cursor past the end of the FIFO
\* buffer: the record lengths of the walked events never add up to more than
\* the FIFO size in dwords.
C11_EventWalkStaysInFifo ==
  (caller = "walk" /\ pw.region = 3) =>
    pw.cursor <= ocp_data_header.event1_FIFO.size_dword

\* C19: on every exit of print_ata_ocp_telemetry_log each buffer the decode
\* allocated, the combined region buffer and the ASCII blob of the strings
\* catalog, has been released, and no buffer is released that was never
\* allocated.
C19_BuffersReleased ==
  (caller = "print" /\ pc = "done") =>
    /\ heap.logs \in {"none", "freed"}
    /\ heap.ascii \in {"none", "freed"}

\* C20: when the strings decode succeeded and the decode of log 0x24 fails,
\* print_ata_ocp_telemetry_log returns false, the two strings sections are
\* what has been emitted, and nothing of the telemetry-data section is.
C20_StatsFailureKeepsStrings ==
  (caller = "print" /\ ret.strings = "ok" /\ ret.stats \notin {"none", "ok"}) =>
    /\ pc = "done"
    /\ ret.print = "false"
    /\ out = << Emit("saved_internal_status", "section", 0, 0),
                Emit("strings_header", "section", 0, 0) >>

\* C20 witness: log 0x24 failed on a region page after the strings decode
\* succeeded with its tables read.
C20_Witness ==
  /\ caller = "print"
  /\ ret.strings = "ok"
  /\ ret.stats = "read_error"
  /\ reads[Len(reads)].log = LOG_CURRENT
  /\ reads[Len(reads)].page >= 2
  /\ Len(out) = 2

StatWalkItems == { i \in 1..Len(out) : out[i].kind = "descriptor" }

\* the descriptor item that follows item i, 0 when i is the last one
NextDescriptor(i) ==
  IF \E j \in StatWalkItems : j > i
  THEN CHOOSE j \in StatWalkItems :
         j > i /\ \A k \in StatWalkItems : k > i => j <= k
  ELSE 0

\* C12: in a statistics list a descriptor whose statistic type is above 2 or
\* whose data type is above 4 emits none of its fields, the walk goes on by
\* 2 + statistic_data_size dwords all the same, the descriptors after it are
\* decoded, and the list indices of the emitted descriptors are 0, 1, 2, ...
\* without a gap.
C12_MalformedSkipped ==
  (caller = "walk" /\ pw.region = 1) =>
    /\ \A i \in StatWalkItems :
         out[i].pos + 2 <= Len(logs) =>
           LET p == out[i].pos
               bad == \/ (logs[p + 1] \div 1048576) % 16 > 2
                      \/ logs[p + 2] % 16 > 4
               len == 2 + logs[p + 2] \div 65536
               n == NextDescriptor(i)
           IN /\ bad => (i = Len(out) \/ out[i + 1].kind = "descriptor")
              /\ ~bad => /\ i < Len(out)
                         /\ out[i + 1] = Emit(out[i].sec, "fields", p, out[i].idx)
              /\ n # 0 => /\ out[n].pos = p + len
                          /\ out[n].idx = out[i].idx + (IF bad THEN 0 ELSE 1)
              /\ n = 0 => pw.cursor = p + len
    /\ \A i \in 1..Len(out) :
         out[i].kind = "fields" =>
           out[i].idx =
             Cardinality({ j \in 1..(i - 1) : out[j].kind = "fields" })

\* C12 witness: a list of three descriptors, the second of statistic type 3,
\* was walked to its end and the third one was emitted with index 1.
C12_Witness ==
  /\ caller = "walk"
  /\ pc = "done"
  /\ logs = <<1, 1, 3145733, 1, 1, 1>>
  /\ [i \in 1..Len(out) |-> out[i].kind] =
       <<"descriptor", "fields", "descriptor", "descriptor", "fields">>
  /\ out[5] = Emit("statistic_area_1", "fields", 4, 1)

\* C18: every ARRAY statistic that is emitted satisfies
\* (element_size + 1) * (number_of_elements + 1) = statistic_data_size * 4 - 4;
\* an ARRAY descriptor whose extent disagrees with its size has none of its
\* elements emitted.
C18_ArrayExtentChecked ==
  (caller = "walk" /\ pw.region = 1) =>
    \A i \in 1..Len(out) :
      (out[i].kind = "array" /\ out[i].pos + 3 <= Len(logs)) =>
        LET p == out[i].pos
        IN ((logs[p + 3] % 256) + 1) * ((logs[p + 3] \div 65536) + 1)
             = (logs[p + 2] \div 65536) * 4 - 4

\* C13: a statistic id, and a (class, event id), that is both in the built-in
\* table and in the strings catalog resolves to the built-in name, whatever
\* the catalog entry and the ASCII blob hold.
C13_BuiltinWins ==
  /\ (/\ fn.op = "ocp_stat_id_to_str"
      /\ fn.id \in BuiltinStatIds
      /\ fn.id \in DOMAIN fn.string_def.stat_id_string_map)
       => fn.res = BuiltinName("ocp_builtin_stat_str", fn.id)
  /\ (/\ fn.op = "event_id_to_str"
      /\ ClassEventName(fn.dbg_class, fn.id[1] + 256 * fn.id[2]) # { }
      /\ fn.dbg_class * 65536 + fn.id[1] + 256 * fn.id[2]
           \in DOMAIN fn.string_def.event_string_map)
       => fn.res \in ClassEventName(fn.dbg_class, fn.id[1] + 256 * fn.id[2])

\* C13 witness: statistic id 0x2001 is in the built-in table and in the
\* catalog and was resolved to its built-in name.
C13_Witness ==
  /\ fn.op = "ocp_stat_id_to_str"
  /\ fn.id = 8193
  /\ fn.id \in DOMAIN fn.string_def.stat_id_string_map
  /\ fn.res = BuiltinName("ocp_builtin_stat_str", 8193)

\* C14: for a statistic id that is not in the built-in table: from 0x8000 on
\* the name is the ascii_id_len bytes of the ASCII blob from ascii_id_offset
\* when the catalog holds the id and "Vendor Unique ID" when it does not;
\* below 0x8000 the name is "Reserved ID" whatever the catalog holds.
C14_StatNameRule ==
  (fn.op = "ocp_stat_id_to_str" /\ fn.id \notin BuiltinStatIds) =>
    LET map == fn.string_def.stat_id_string_map
        blob == fn.string_def.ocp_string_ascii_table
    IN IF fn.id >= 32768
       THEN IF fn.id \in DOMAIN map
            THEN /\ map[fn.id].offset + map[fn.id].len <= Len(blob)
                 /\ fn.res.kind = "ascii"
                 /\ fn.res.text =
                      CStr([i \in 1..map[fn.id].len |-> blob[map[fn.id].offset + i]])
            ELSE fn.res = LiteralName("Vendor Unique ID")
       ELSE fn.res = LiteralName("Reserved ID")

\* C15: an event name is the class-specific built-in name when the id is in
\* the table of the class (boot sequence: 0..3 and 0x100..0x103), otherwise
\* the name the catalog holds at key class << 16 | id, otherwise "Vendor
\* Unique ID" from 0x8000 on and "Reserved ID" below.
C15_EventNameRule ==
  fn.op = "event_id_to_str" =>
    LET c == fn.dbg_class
        ev == fn.id[1] + 256 * fn.id[2]
        key == c * 65536 + ev
        map == fn.string_def.event_string_map
        blob == fn.string_def.ocp_string_ascii_table
        boot == c = 5 /\ (ev \in 0..3 \/ ev \in 256..259)
        table == c \in DOMAIN EventTable /\ ev <= EventTable[c].max
    IN IF table
       THEN fn.res = BuiltinName(EventTable[c].name, ev)
       ELSE IF boot
            THEN fn.res = IF ev < 256
                          THEN BuiltinName("ocp_ssd_boot_seq_event_id_str", ev)
                          ELSE BuiltinName("ocp_hdd_boot_seq_event_id_str", ev - 256)
            ELSE IF key \in DOMAIN map
                 THEN /\ map[key].offset + map[key].len <= Len(blob)
                      /\ fn.res.kind = "ascii"
                      /\ fn.res.text =
                           CStr([i \in 1..map[key].len |-> blob[map[key].offset + i]])
                 ELSE IF ev >= 32768
                      THEN fn.res = LiteralName("Vendor Unique ID")
                      ELSE fn.res = LiteralName("Reserved ID")

\* the bytes of a value given as 16-bit limbs, the most significant first
LimbBytes(v) == [ i \in 1..(2 * Len(v)) |->
                    IF i % 2 = 1 THEN v[(i + 1) \div 2] \div 256
                    ELSE v[(i + 1) \div 2] % 256 ]

\* C16: with p = (timestamp_info >> 4) & 3, the result is the big-endian
\* 48-bit value of the six bytes for p = 1, their little-endian 48-bit value
\* for p = 2 and 0 for p = 0 and p = 3; it is below 2^48 and a function of
\* the six bytes and of bits 5..4 of timestamp_info only.
C16_TimestampValue ==
  fn.op = "ocp_telemetry_timestamp_to_uint64" =>
    LET t == fn.timestamp
        b4 == (fn.timestamp_info \div 16) % 2
        b5 == (fn.timestamp_info \div 32) % 2
    IN /\ Len(fn.res) = 3
       /\ \A i \in 1..3 : fn.res[i] \in 0..65535
       /\ (b5 = 0 /\ b4 = 1) => LimbBytes(fn.res) = t
       /\ (b5 = 1 /\ b4 = 0) => LimbBytes(fn.res) = [i \in 1..6 |-> t[7 - i]]
       /\ (b5 = b4) => fn.res = <<0, 0, 0>>

\* C16 witness: a SATA timestamp (protocol 2) with other bits of
\* timestamp_info set and bytes that differ.
C16_Witness ==
  /\ fn.op = "ocp_telemetry_timestamp_to_uint64"
  /\ fn.timestamp_info = 65519
  /\ fn.timestamp = <<1, 0, 255, 0, 1, 255>>
  /\ fn.res = <<65281, 255, 1>>

\* the value of a character "%02X" prints
HexValue(ch) == (CHOOSE d \in 1..16 : HexDigits[d] = ch) - 1

\* C17: the rendered GUID is 32 hex digits and an 'h'; the i-th digit pair
\* (from 0) encodes byte g[15 - i], so that reading the pairs back and
\* reversing them gives g.
C17_GuidReversible ==
  fn.op = "ocp_guid_to_str" =>
    LET str == fn.res
        pair(i) == 16 * HexValue(str[2 * i + 1]) + HexValue(str[2 * i + 2])
        back == [ j \in 1..16 |-> pair(16 - j) ]
    IN /\ Len(str) = 33
       /\ str[33] = "h"
       /\ \A c \in 1..32 : \E d \in 1..16 : HexDigits[d] = str[c]
       /\ \A i \in 0..15 : pair(i) = fn.guid[16 - i]
       /\ back = fn.guid

\* C17 witness: a GUID whose first and last bytes differ was rendered, the
\* last byte first.
C17_Witness ==
  /\ fn.op = "ocp_guid_to_str"
  /\ fn.guid[1] = 171
  /\ fn.guid[16] = 10
  /\ fn.res[1] = "0" /\ fn.res[2] = "A"
  /\ fn.res[31] = "A" /\ fn.res[32] = "B"

\* C21: when an event of class 0x0A starts with fewer than 12 bytes left in
\* the FIFO buffer, the walk stops at it: the embedded statistic descriptor
\* is not decoded, nothing beyond the buffer is read and no later event is
\* walked.
C21_TruncatedSnapshotStops ==
  (caller = "walk" /\ pw.region = 3) =>
    LET size == ocp_data_header.event1_FIFO.size_dword IN
    \A i \in 1..Len(out) :
      (/\ out[i].kind = "descriptor"
       /\ out[i].pos < size
       /\ logs[out[i].pos + 1] % 256 = 10
       /\ (size - out[i].pos) * 4 < 12) =>
        /\ i = Len(out)
        /\ pc = "done"
        /\ pw.read_end <= size
        /\ pw.ub = 0

\* C22: with c the class-specific portion (8 for Timestamp, 12 for Media
\* Wear, 4 for Virtual FIFO, 28 for SATA Transport, 0 otherwise), an event of
\* class below 0x80 whose body of data_size * 4 bytes is longer than c has a
\* 2-byte VU event id consumed and data_size * 4 - c - 2 bytes emitted as VU
\* data, and one whose body is not longer than c has neither; for a class
\* from 0x80 on no VU event id is consumed; no byte beyond the body is read.
C22_VuTail ==
  (fn.op = "print_event_desc" /\ fn.dbg_class # 10 /\ ~fn.res.crashed) =>
    LET c == IF fn.dbg_class = 1 THEN 8
             ELSE IF fn.dbg_class = 9 THEN 12
             ELSE IF fn.dbg_class = 11 THEN 4
             ELSE IF fn.dbg_class = 13 THEN 28
             ELSE 0
        body == fn.data_size * 4
    IN /\ fn.dbg_class < 128 =>
            IF body > c
            THEN fn.res.vu_id /\ fn.res.vu_data = body - c - 2
            ELSE ~fn.res.vu_id /\ fn.res.vu_data = 0
       /\ fn.dbg_class >= 128 => ~fn.res.vu_id
       /\ fn.res.read_end <= body

\* C23: for a Virtual FIFO event with marker m the FIFO number is m & 0x7FF,
\* the data area is (m >> 11) & 7, and the virtual FIFO name is the catalog
\* entry at key 0x0B << 16 | m whenever the catalog holds that key.
C23_VirtualFifoName ==
  (fn.op = "print_event_desc" /\ fn.dbg_class = 11) =>
    LET m == fn.marker[1] + 256 * fn.marker[2]
        key == 11 * 65536 + m
        map == fn.string_def.event_string_map
    IN /\ fn.res.vf.number = m % 2048
       /\ fn.res.vf.data_area = (m \div 2048) % 8
       /\ key \in DOMAIN map =>
            /\ fn.res.vf.name.kind = "ascii"
            /\ fn.res.vf.name.entry = map[key]

\* a byte sequence without its trailing spaces
RECURSIVE TrimRight(_)
TrimRight(bytes) ==
  IF bytes = << >> THEN << >>
  ELSE IF bytes[Len(bytes)] = 32 THEN TrimRight(SubSeq(bytes, 1, Len(bytes) - 1))
  ELSE bytes

\* C24: for an ASCII field of n >= 1 bytes and a destination of len >= 1
\* bytes, ocp_ascii_to_c_str leaves the field's bytes without their trailing
\* spaces, cut to len - 1 bytes, in front of the NUL (a non-space byte 0
\* followed by spaces gives that byte, spaces only give the empty string),
\* and reads no byte outside the field.
C24_TrailingSpacesTrimmed ==
  (fn.op = "ocp_ascii_to_c_str" /\ Len(fn.data) >= 1 /\ fn.len >= 1) =>
    LET trimmed == TrimRight(fn.data)
        n == IF Len(trimmed) < fn.len - 1 THEN Len(trimmed) ELSE fn.len - 1
    IN /\ fn.res.kind = "str"
       /\ fn.res.text = SubSeq(trimmed, 1, n)
       /\ fn.res.ub = 0

\* C25: the decode of a statistic descriptor body reads no byte outside the
\* statistic_data_size * 4 bytes of the body: for CUSTOM id 0x0002 the 4
\* bytes in front and 512 * log_page_count bytes lie within them, for CUSTOM
\* id 0x0003 the length (statistic_data_size - 1) * 4 is not below 0, for
\* CUSTOM id 0x6006 the bytes read lie within them, and for SINGLE the value
\* read is not longer than them.
C25_BodyReadsInExtent ==
  (fn.op = "ocp_print_stat_desc" /\ fn.stat_type # 1) =>
    /\ ~fn.res.wrapped
    /\ fn.res.lo >= 0
    /\ fn.res.hi <= fn.statistic_data_size * 4

\* C26: every name lookup through the strings catalog reads only bytes of
\* the ASCII blob the strings decode allocated: the blob is an allocated
\* buffer also when ascii_table_size is 0, and ascii_id_offset + ascii_id_len
\* is not beyond its ascii_table_size * 4 bytes when the bytes are copied.
C26_LookupsInsideBlob ==
  fn.op \in {"ocp_stat_id_to_str", "event_id_to_str"} =>
    /\ fn.res.kind # "crash"
    /\ fn.res.kind = "ascii" =>
         /\ Len(fn.string_def.ocp_string_ascii_table) > 0
         /\ fn.res.entry.offset + fn.res.entry.len
              <= Len(fn.string_def.ocp_string_ascii_table)

\* the pages of log 0x25 read so far, in the order of the requests
SavedPages == SelectSeq(reads, LAMBDA r : r.log = LOG_SAVED)

\* the dwords of all chunks handed to the table processors and to memcpy
RECURSIVE ChunkDwords(_)
ChunkDwords(chunks) ==
  IF chunks = << >> THEN 0
  ELSE Head(chunks).dwords + ChunkDwords(Tail(chunks))

\* C27: every strings header that passes the budget check lets the table walk
\* end: each chunk holds at least one dword, the count of remaining dwords
\* never steps below zero, at most ascii_table_size * 4 bytes are copied to
\* the ASCII blob, the chunks hold no more dwords than the four table sizes
\* add up to, and the pages read after page 1 are 2, 3, ... in this order.
C27_TableWalkConsumes ==
  (ocp_strings_header.valid /\ sw.log_page_idx >= 1) =>
    /\ sw.dwords_to_read >= 0
    /\ \A i \in 1..Len(ocp_strings.chunks) : ocp_strings.chunks[i].dwords >= 1
    /\ ocp_strings.ascii_bytes <= ocp_strings_header.ascii.size * 4
    /\ \A i \in 1..Len(SavedPages) : SavedPages[i].page = i - 1
    /\ ChunkDwords(ocp_strings.chunks)
         <= StringsDwordsToRead(ocp_strings_header)

\* the position lies in none of the four tables of the strings header
InNoTable(h, pos) ==
  \A t \in {"statistics_id_string", "event_string", "vu_event_string", "ascii"} :
    \/ h[t].size = 0
    \/ ULess(pos, h[t].start)
    \/ ~ULess(pos, h[t].start + h[t].size)

\* the table walk stands at a position outside all tables with dwords left
AtGap ==
  /\ ocp_strings_header.valid
  /\ sw.log_page_idx >= 1
  /\ sw.dwords_to_read # 0
  /\ InNoTable(ocp_strings_header, sw.dword_pos)

\* C28 as stated: whenever the position of the table walk lies in none of the
\* four tables while dwords remain, the walk has stopped, no further page is
\* read, and the function has returned success with the entries collected up
\* to that position.
C28_GapStopsWalkAsClaimed ==
  AtGap =>
    /\ pc = "done"
    /\ ret.strings = "ok"
    /\ ChunkDwords(ocp_strings.chunks) = sw.dword_pos - StringsHeaderDwords

\* C28 amended: a position outside all tables with dwords left is examined by
\* the loop only after the next page was read when the position was reached
\* at the end of a page; a failure of that read fails the decode.  Once the
\* loop examines the position, the walk stops, no page is read after that,
\* and the function returns success with the entries collected up to that
\* position.
C28_GapStopsWalk ==
  AtGap =>
    /\ ChunkDwords(ocp_strings.chunks) = sw.dword_pos - StringsHeaderDwords
    /\ Len(SavedPages) = sw.log_page_idx + 1
    /\ \/ /\ pc = "done"
          /\ ret.strings = "ok"
          /\ SavedPages[Len(SavedPages)].ok
       \/ /\ pc = "done"
          /\ ret.strings = "read_error"
          /\ ~SavedPages[Len(SavedPages)].ok
          /\ sw.log_page_idx >= 2
          /\ ocp_strings.chunks # << >>
          /\ ocp_strings.chunks[Len(ocp_strings.chunks)].page < sw.log_page_idx
       \/ /\ pc = "strings_table_page"
          /\ ret.strings = "none"
          /\ sw.dwords_in_page = 0

\* a gap reached at the end of page 1 was examined after page 2 was read: the
\* decode returned success with the one table collected on page 1, eight
\* dwords were left and page 2 was the last page read
C28_Witness ==
  /\ AtGap
  /\ pc = "done"
  /\ ret.strings = "ok"
  /\ sw.dword_pos = PageDwords
  /\ sw.dwords_to_read = 8
  /\ sw.log_page_idx = 2
  /\ Len(ocp_strings.chunks) = 1
  /\ ocp_strings.chunks[1].page = 1
  /\ Len(SavedPages) = 3

\* C30: every chunk handed to ocp_process_stat_id_strings and
\* ocp_process_event_strings holds whole 16-byte entries, so that the entry
\* loop ends with exactly no byte remaining.
C30_ChunksHoldWholeEntries ==
  /\ pc # "crashed"
  /\ \A i \in 1..Len(ocp_strings.chunks) :
       ocp_strings.chunks[i].table # "ascii" =>
         (ocp_strings.chunks[i].dwords * 4) % StringEntrySize = 0

\* C29: with a sector budget below 5 the validation of the data header
\* rejects every header: the decode of log 0x24 fails at the validation, no
\* buffer is allocated, and no page behind page 1 is read.
C29_BelowFiveSectorsRejected ==
  (ocp_data_header.valid /\ nsectors_0x24 < 5) =>
    /\ pc = "done"
    /\ ret.stats = "budget"
    /\ max_dword >= 512
    /\ heap.logs = "none"
    /\ logs = << >>
    /\ \A i \in ReadIdx : reads[i].log = LOG_CURRENT => reads[i].page <= 1

\* C29 witness: a header without any region was read with a budget of four
\* sectors, max_dword stayed at the size of the header, and the decode failed
\* at the validation.
C29_Witness ==
  /\ ocp_data_header.valid
  /\ nsectors_0x24 = 4
  /\ ocp_data_header.statistic1.size_dword = 0
  /\ ocp_data_header.statistic2.size_dword = 0
  /\ ocp_data_header.event1_FIFO.size_dword = 0
  /\ ocp_data_header.event2_FIFO.size_dword = 0
  /\ max_dword = DataHeaderSize
  /\ ret.stats = "budget"

====
